---- MODULE Spec2Model ----
(***************************************************************************)
(* FieldShield: role-based field-level access control for Mongoose.        *)
(*                                                                         *)
(* The module models the policy compiler (parseSchemaShield and the strict *)
(* validation of registerModelPolicyFromSchema), the policy registry with  *)
(* its projections, the $project merge of the aggregation middleware and   *)
(* the serialization-time record filter (applyPostFiltering).              *)
(*                                                                         *)
(* Field paths and role names are strings, as in the source: startsWith,   *)
(* split('.') and the sort by string length are computed on the strings.   *)
(***************************************************************************)
EXTENDS Integers, Sequences, FiniteSets, TLC

VARIABLES
    schema,         \* the declared schema: schema.paths in declaration order
    strict,         \* the strict option of installFieldShield
    regStatus,      \* outcome of registerModelPolicyFromSchema for the model
    errorField,     \* field named by the ShieldError raised at registration
    policies,       \* PolicyRegistry.policies for the one model of the model
    precomputed,    \* PolicyRegistry.precomputed for that model
    callRoles,      \* role list of the last read request
    projection,     \* result of the last projection computation
    lastOp,         \* name of the last operation that ran
    allowedRoles,   \* roles list of the rule handed to the role check
    userRoles,      \* caller roles handed to the role check
    roleResult,     \* result of the last role check
    userProjection, \* caller-authored $project stage
    allowedFields,  \* allowed-field list handed to mergeProjections
    merged,         \* result of mergeProjections
    ret,            \* the fetched record handed to the record filter
    filterCtx,      \* context {roles, userId} of the record filter
    filtered,       \* outcome of the record filter
    got,            \* result of the last PolicyRegistry.getProjection call
    computeLog,     \* cache keys for which computeProjection has run
    calls,          \* getProjection calls since the last register or clear
    callers,        \* the getProjection call of each concurrent caller
    modelDefined,   \* mongoose.model() has been called for the schema
    processedModels,\* the plugin's processedModels set holds the model name
    query,          \* the query or aggregate being executed
    pipeline,       \* the aggregation pipeline (this.pipeline())
    insertIndex     \* result of findSafeProjectInsertIndex

vars == << schema, strict, regStatus, errorField, policies, precomputed,
           callRoles, projection, lastOp, allowedRoles, userRoles, roleResult,
           userProjection, allowedFields, merged, ret, filterCtx, filtered,
           got, computeLog, calls, callers, modelDefined, processedModels, query,
           pipeline, insertIndex >>

registryVars == << got, computeLog, calls, callers >>

lifecycleVars == << modelDefined, processedModels, query >>

pipelineVars == << pipeline, insertIndex >>

(***************************************************************************)
(* Bounds of the model.                                                    *)
(***************************************************************************)
MaxPaths == 3       \* declared schema paths per schema
MaxRoles == 2       \* length of a caller's role list

(***************************************************************************)
(* Generic helpers over sequences and strings.                             *)
(***************************************************************************)
Range(s) == { s[i] : i \in 1..Len(s) }

Contains(s, x) == \E i \in 1..Len(s) : s[i] = x

\* Append x unless it is already there (insertion-ordered JS Set.add)
SetAdd(s, x) == IF Contains(s, x) THEN s ELSE Append(s, x)

RECURSIVE SetAddAll(_, _)
SetAddAll(s, xs) ==
    IF xs = << >> THEN s ELSE SetAddAll(SetAdd(s, Head(xs)), Tail(xs))

\* String.prototype.startsWith
startsWith(s, p) == Len(s) >= Len(p) /\ SubSeq(s, 1, Len(p)) = p

DotPositions(s) == { i \in 1..Len(s) : SubSeq(s, i, i) = "." }

\* String.prototype.split('.')
RECURSIVE split(_)
split(s) ==
    IF DotPositions(s) = {} THEN << s >>
    ELSE LET i == CHOOSE k \in DotPositions(s) : \A j \in DotPositions(s) : k <= j
         IN << SubSeq(s, 1, i - 1) >> \o split(SubSeq(s, i + 1, Len(s)))

\* Array.prototype.join('.')
RECURSIVE join(_)
join(parts) ==
    IF parts = << >> THEN ""
    ELSE IF Len(parts) = 1 THEN parts[1]
    ELSE parts[1] \o "." \o join(Tail(parts))

\* All sequences over S of length at most n
RECURSIVE SeqsUpTo(_, _)
SeqsUpTo(S, n) ==
    IF n = 0 THEN { << >> }
    ELSE LET shorter == SeqsUpTo(S, n - 1)
         IN shorter \cup { Append(s, x) : s \in shorter, x \in S }

(***************************************************************************)
(* ModelPolicy: a JS Map from field path to ShieldConfig, kept as the      *)
(* sequence of its entries in insertion order.                             *)
(***************************************************************************)
PolicyKeys(policy) == [ i \in 1..Len(policy) |-> policy[i].field ]

PolicyHas(policy, field) == \E i \in 1..Len(policy) : policy[i].field = field

PolicyGet(policy, field) ==
    policy[CHOOSE i \in 1..Len(policy) : policy[i].field = field].config

\* Map.set: an existing key keeps its position
PolicySet(policy, field, config) ==
    IF PolicyHas(policy, field)
    THEN [ i \in 1..Len(policy) |->
             IF policy[i].field = field
             THEN [field |-> field, config |-> config] ELSE policy[i] ]
    ELSE Append(policy, [field |-> field, config |-> config])

(***************************************************************************)
(* Role check (registry.ts).                                               *)
(***************************************************************************)
\* A plausible slip: the 'public' token is not special-cased
checkRoleAccessNoPublic(allowed, roles) ==
    IF Len(allowed) = 0 THEN FALSE
    ELSE IF Contains(allowed, "*") THEN TRUE
    ELSE \E i \in 1..Len(allowed) : Contains(roles, allowed[i])

\* checkRoleAccess(allowedRoles, userRoles): array based
checkRoleAccess(allowed, roles) ==
    IF Len(allowed) = 0 THEN FALSE
    ELSE IF Contains(allowed, "*") THEN TRUE
    ELSE IF Contains(allowed, "public") THEN TRUE
    ELSE \E i \in 1..Len(allowed) : Contains(roles, allowed[i])

\* checkRoleAccessFast(allowedRoles, userRoleSet): Set based
checkRoleAccessFast(allowed, roleSet) ==
    IF Len(allowed) = 0 THEN FALSE
    ELSE IF Contains(allowed, "*") THEN TRUE
    ELSE IF Contains(allowed, "public") THEN TRUE
    ELSE \E i \in 1..Len(allowed) : allowed[i] \in roleSet

(***************************************************************************)
(* Projection (registry.ts).                                               *)
(***************************************************************************)
\* sort((a, b) => a.length - b.length): stable insertion by string length
RECURSIVE SortByLength(_)
SortByLength(paths) ==
    IF paths = << >> THEN << >>
    ELSE LET front == SortByLength(SubSeq(paths, 1, Len(paths) - 1))
             x == paths[Len(paths)]
             keep == SelectSeq(front, LAMBDA y : Len(y) <= Len(x))
             rest == SelectSeq(front, LAMBDA y : Len(y) > Len(x))
         IN keep \o << x >> \o rest

\* First pass of removeRedundantParentPaths: result.push unless hasChild
RECURSIVE FirstPass(_, _)
FirstPass(sorted, result) ==
    IF sorted = << >> THEN result
    ELSE LET path == Head(sorted)
             hasChild == \E i \in 1..Len(result) :
                            startsWith(result[i], path \o ".")
         IN FirstPass(Tail(sorted),
                      IF hasChild THEN result ELSE Append(result, path))

\* A plausible slip: the second pass is dropped, so parents stay
removeRedundantParentPathsFirstPassOnly(paths) ==
    FirstPass(SortByLength(paths), << >>)

removeRedundantParentPaths(paths) ==
    LET result == FirstPass(SortByLength(paths), << >>)
    IN SelectSeq(result, LAMBDA path :
           ~ \E i \in 1..Len(result) :
                 result[i] # path /\ startsWith(result[i], path \o "."))

\* Tail of computeProjection / calculateAllowedFields: the entries that
\* passed the role check become selectFields (after '_id') and conditionFields
ProjectionFrom(entries) ==
    LET selectFields == SetAddAll(<< "_id" >>, PolicyKeys(entries))
    IN [ selectFields |-> removeRedundantParentPaths(selectFields),
         conditionFields |-> { entries[i].field : i \in
               { j \in 1..Len(entries) : entries[j].config.condition # "none" } } ]

\* PolicyRegistryImpl.computeProjection(policy, roles)
computeProjection(policy, roles) ==
    ProjectionFrom(SelectSeq(policy, LAMBDA e :
        e.field # "__v" /\ checkRoleAccessFast(e.config.roles, Range(roles))))

\* The projection of a model without a policy
MinimalProjection == [ selectFields |-> << "_id" >>, conditionFields |-> {} ]

\* calculateAllowedFields(modelName, roles) on the registry entry of the model
calculateAllowedFields(registered, roles) ==
    IF ~ registered.has THEN MinimalProjection
    ELSE ProjectionFrom(SelectSeq(registered.policy, LAMBDA e :
             e.field # "__v" /\ checkRoleAccess(e.config.roles, roles)))

(***************************************************************************)
(* Schema policy compiler (registry.ts).                                   *)
(*                                                                         *)
(* A schema is the sequence of its paths; a path carries its name, its     *)
(* shield option and, for a sub-document path, the embedded schema.        *)
(***************************************************************************)
NoShield ==
    [ present |-> FALSE, rolesIsArray |-> TRUE, roles |-> << >>,
      condition |-> "none", transform |-> "none" ]

Shield(roles, condition, transform) ==
    [ present |-> TRUE, rolesIsArray |-> TRUE, roles |-> roles,
      condition |-> condition, transform |-> transform ]

\* a shield option whose roles is not an array
MalformedShield ==
    [ present |-> TRUE, rolesIsArray |-> FALSE, roles |-> << >>,
      condition |-> "none", transform |-> "none" ]

\* ShieldConfig as stored by parseSchemaPathsRecursive
ExplicitConfig(shield) ==
    [ roles |-> shield.roles, condition |-> shield.condition,
      transform |-> shield.transform, synthesized |-> FALSE ]

\* ShieldConfig as stored by synthesizeParentPolicies
SynthesizedConfig(roles) ==
    [ roles |-> roles, condition |-> "none", transform |-> "none",
      synthesized |-> TRUE ]

EmptyParse ==
    [ policy |-> << >>, schemaFields |-> << >>, threw |-> FALSE ]

\* parseSchemaPathsRecursive(schema, prefix, policy, schemaFields, modelName);
\* threw: the Error for a roles that is not an array has been thrown
RECURSIVE parseSchemaPathsRecursive(_, _, _)
parseSchemaPathsRecursive(paths, prefix, acc) ==
    IF acc.threw \/ paths = << >> THEN acc
    ELSE LET path == Head(paths)
             fullPath == IF prefix # "" THEN prefix \o "." \o path.name
                         ELSE path.name
             pushed == [acc EXCEPT !.schemaFields = Append(@, fullPath)]
             shielded ==
                 IF ~ path.shield.present THEN pushed
                 ELSE IF ~ path.shield.rolesIsArray
                      THEN [pushed EXCEPT !.threw = TRUE]
                      ELSE [pushed EXCEPT !.policy =
                               PolicySet(@, fullPath, ExplicitConfig(path.shield))]
             descended ==
                 IF ~ shielded.threw /\ path.hasSchema
                 THEN parseSchemaPathsRecursive(path.schema, fullPath, shielded)
                 ELSE shielded
         IN parseSchemaPathsRecursive(Tail(paths), prefix, descended)

\* a.b.c -> [a, a.b]
AncestorPrefixes(path) ==
    LET parts == split(path)
    IN [ i \in 1..(Len(parts) - 1) |-> join(SubSeq(parts, 1, i)) ]

RECURSIVE ParentPrefixes(_, _)
ParentPrefixes(keys, acc) ==
    IF keys = << >> THEN acc
    ELSE ParentPrefixes(Tail(keys), SetAddAll(acc, AncestorPrefixes(Head(keys))))

Depth(path) == Len(split(path))

\* sort((a, b) => depthB - depthA): stable, deepest first
RECURSIVE SortDeepestFirst(_)
SortDeepestFirst(paths) ==
    IF paths = << >> THEN << >>
    ELSE LET front == SortDeepestFirst(SubSeq(paths, 1, Len(paths) - 1))
             x == paths[Len(paths)]
             keep == SelectSeq(front, LAMBDA y : Depth(y) >= Depth(x))
             rest == SelectSeq(front, LAMBDA y : Depth(y) < Depth(x))
         IN keep \o << x >> \o rest

RECURSIVE UnionOfRoles(_, _)
UnionOfRoles(entries, acc) ==
    IF entries = << >> THEN acc
    ELSE UnionOfRoles(Tail(entries), SetAddAll(acc, Head(entries).config.roles))

\* A plausible slip: only the direct children of the prefix are collected
SynthesizeOneDirectChildren(policy, prefix) ==
    IF PolicyHas(policy, prefix) THEN policy
    ELSE LET below == SelectSeq(policy, LAMBDA e :
                 /\ startsWith(e.field, prefix \o ".")
                 /\ Depth(e.field) = Depth(prefix) + 1)
         IN IF below # << >>
            THEN PolicySet(policy, prefix, SynthesizedConfig(UnionOfRoles(below, << >>)))
            ELSE policy

\* A plausible slip: the "parent already has explicit config" skip is missing
SynthesizeOneOverwriting(policy, prefix) ==
    LET below == SelectSeq(policy, LAMBDA e : startsWith(e.field, prefix \o "."))
    IN IF below # << >>
       THEN PolicySet(policy, prefix, SynthesizedConfig(UnionOfRoles(below, << >>)))
       ELSE policy

\* Body of the loop over sortedPrefixes in synthesizeParentPolicies
SynthesizeOne(policy, prefix) ==
    IF PolicyHas(policy, prefix) THEN policy
    ELSE LET below == SelectSeq(policy, LAMBDA e : startsWith(e.field, prefix \o "."))
         IN IF below # << >>
            THEN PolicySet(policy, prefix, SynthesizedConfig(UnionOfRoles(below, << >>)))
            ELSE policy

RECURSIVE SynthesizeAll(_, _)
SynthesizeAll(policy, prefixes) ==
    IF prefixes = << >> THEN policy
    ELSE SynthesizeAll(SynthesizeOne(policy, Head(prefixes)), Tail(prefixes))

synthesizeParentPolicies(policy) ==
    SynthesizeAll(policy,
                  SortDeepestFirst(ParentPrefixes(PolicyKeys(policy), << >>)))

\* parseSchemaShield(schema, modelName)
parseSchemaShield(paths) ==
    LET parsed == parseSchemaPathsRecursive(paths, "", EmptyParse)
    IN IF parsed.threw THEN parsed
       ELSE [parsed EXCEPT !.policy = synthesizeParentPolicies(@)]

(***************************************************************************)
(* Strict validation and registration (registerModelPolicyFromSchema) and  *)
(* PolicyRegistry.register with its precomputed single-role projections.   *)
(***************************************************************************)
\* the fields the strict loop skips
IsInternalField(field) ==
    field = "_id" \/ field = "__v" \/ startsWith(field, "_")

isCoveredByParent(policy, field) ==
    LET parts == split(field)
    IN \E i \in 1..(Len(parts) - 1) : PolicyHas(policy, join(SubSeq(parts, 1, i)))

hasChildPolicies(policy, field) ==
    \E i \in 1..Len(policy) : startsWith(policy[i].field, field \o ".")

\* the field reaches ShieldError.missingShieldConfig
IsMissingShield(policy, field) ==
    /\ ~ IsInternalField(field)
    /\ ~ PolicyHas(policy, field)
    /\ ~ isCoveredByParent(policy, field)
    /\ ~ hasChildPolicies(policy, field)

MissingIndexes(policy, schemaFields) ==
    { i \in 1..Len(schemaFields) : IsMissingShield(policy, schemaFields[i]) }

\* A plausible slip: the strict loop collects the missing fields and reports
\* the last one instead of throwing at the first
registerModelPolicyFromSchemaLastMissing(paths, isStrict) ==
    LET parsed == parseSchemaShield(paths)
        missing == MissingIndexes(parsed.policy, parsed.schemaFields)
    IN IF parsed.threw
       THEN [ status |-> "failed", errorField |-> "", policy |-> << >> ]
       ELSE IF Len(parsed.policy) = 0
       THEN [ status |-> "skipped", errorField |-> "", policy |-> << >> ]
       ELSE IF isStrict /\ missing # {}
       THEN [ status |-> "shieldError",
              errorField |-> parsed.schemaFields[
                  CHOOSE i \in missing : \A j \in missing : i >= j],
              policy |-> << >> ]
       ELSE [ status |-> "registered", errorField |-> "",
              policy |-> parsed.policy ]

\* Outcome of registerModelPolicyFromSchema(schema, modelName, strict, debug):
\*   "failed"      parseSchemaShield threw an Error, caught and logged
\*   "skipped"     no shield config, nothing registered
\*   "shieldError" ShieldError.missingShieldConfig thrown for errorField
\*   "registered"  PolicyRegistry.register called with the policy
registerModelPolicyFromSchema(paths, isStrict) ==
    LET parsed == parseSchemaShield(paths)
        missing == MissingIndexes(parsed.policy, parsed.schemaFields)
    IN IF parsed.threw
       THEN [ status |-> "failed", errorField |-> "", policy |-> << >> ]
       ELSE IF Len(parsed.policy) = 0
       THEN [ status |-> "skipped", errorField |-> "", policy |-> << >> ]
       ELSE IF isStrict /\ missing # {}
       THEN [ status |-> "shieldError",
              errorField |-> parsed.schemaFields[
                  CHOOSE i \in missing : \A j \in missing : i <= j],
              policy |-> << >> ]
       ELSE [ status |-> "registered", errorField |-> "",
              policy |-> parsed.policy ]

NoPolicy == [ has |-> FALSE, policy |-> << >> ]

NoPrecomputed ==
    [ has |-> FALSE, singleRoleProjections |-> << >>,
      multiRoleCache |-> << >>, allRoles |-> {} ]

\* roles collected by precomputeProjections
AllRolesOf(policy) ==
    UNION { Range(policy[i].config.roles) : i \in 1..Len(policy) }
        \cup { "public", "*" }

\* PolicyRegistryImpl.precomputeProjections(modelName, policy)
precomputeProjections(policy) ==
    [ has |-> TRUE,
      singleRoleProjections |->
          [ role \in AllRolesOf(policy) |-> computeProjection(policy, << role >>) ],
      multiRoleCache |-> << >>,
      allRoles |-> AllRolesOf(policy) ]

NoProjection == [ selectFields |-> << >>, conditionFields |-> {} ]

(***************************************************************************)
(* Inputs: the schemas a host may declare.                                 *)
(***************************************************************************)
Shields ==
    { NoShield,
      Shield(<< >>, "none", "none"),
      Shield(<< "admin" >>, "none", "none"),
      Shield(<< "user" >>, "owner", "mask"),
      Shield(<< "public" >>, "none", "none") }

Node(name, shields, children) ==
    [ name |-> name, shields |-> shields, children |-> children ]

\* The paths a schema of the model may declare: the identity field (also as
\* a composite key), the version key, a plain field (whose shield may be
\* malformed), and a document array x with a nested document array x.a
Skeleton ==
    << Node("_id", Shields, << Node("k", Shields, << >>) >>),
       Node("__v", Shields, << >>),
       Node("name", Shields \cup { MalformedShield }, << >>),
       Node("x", Shields, << Node("a", Shields, << Node("c", Shields, << >>) >>),
                             Node("b", Shields, << >>) >>) >>

RECURSIVE CountPaths(_)
CountPaths(paths) ==
    IF paths = << >> THEN 0
    ELSE 1 + CountPaths(Head(paths).schema) + CountPaths(Tail(paths))

\* the schemas over the given nodes that declare at most budget paths
RECURSIVE SchemasOver(_, _)
SchemasOver(nodes, budget) ==
    IF nodes = << >> \/ budget = 0 THEN { << >> }
    ELSE LET n == Head(nodes)
             declared ==
                 { [ name |-> n.name, shield |-> s,
                     hasSchema |-> n.children # << >>, schema |-> sub ] :
                   s \in n.shields, sub \in SchemasOver(n.children, budget - 1) }
         IN SchemasOver(Tail(nodes), budget)
            \cup UNION { { << e >> \o rest :
                             rest \in SchemasOver(Tail(nodes),
                                                  budget - 1 - CountPaths(e.schema)) } :
                         e \in declared }

Schemas == SchemasOver(Skeleton, MaxPaths) \ { << >> }

CallerRoles == { "admin", "user" }

CallerRoleLists == SeqsUpTo(CallerRoles, MaxRoles)

(***************************************************************************)
(* Idle values of the state each specification leaves alone.               *)
(***************************************************************************)
IdleCompile ==
    /\ schema = << >>
    /\ strict = TRUE
    /\ regStatus = "defined"
    /\ errorField = ""
    /\ precomputed = NoPrecomputed
    /\ projection = NoProjection

IdleRoleCheck ==
    /\ allowedRoles = << >>
    /\ userRoles = << >>
    /\ roleResult = [ done |-> FALSE, array |-> FALSE, fast |-> FALSE ]

IdleMerge ==
    /\ userProjection = << >>
    /\ allowedFields = << >>
    /\ merged = [ done |-> FALSE, stage |-> << >> ]

IdleFilter ==
    /\ ret = << >>
    /\ filterCtx = [ roles |-> << >>, userId |-> "u1" ]
    /\ filtered = [ done |-> FALSE, threw |-> FALSE, result |-> << >> ]

\* getProjection has not been called
NoResult == [ done |-> FALSE, isNull |-> FALSE, value |-> NoProjection ]

\* the callers of the model
Callers == { 1, 2 }

\* a caller that is not inside getProjection
NoCall ==
    [ pc |-> "idle", roles |-> << >>, isNull |-> FALSE, value |-> NoProjection,
      computed |-> FALSE ]

IdleRegistry ==
    /\ got = NoResult
    /\ computeLog = << >>
    /\ calls = 0
    /\ callers = [ c \in Callers |-> NoCall ]

\* no query is being executed
NoQuery ==
    [ phase |-> "none", op |-> "none", rolesSet |-> FALSE, roles |-> << >>,
      bypassed |-> FALSE, given |-> << >>,
      error |-> "none", errorOp |-> "none",
      selected |-> FALSE, selectFields |-> << >>,
      optionsSet |-> FALSE, conditionFields |-> {},
      contextAttached |-> FALSE ]

IdleLifecycle ==
    /\ modelDefined = TRUE
    /\ processedModels = FALSE
    /\ query = NoQuery

IdlePipeline ==
    /\ pipeline = << >>
    /\ insertIndex = [ done |-> FALSE, index |-> 0 ]

(***************************************************************************)
(* Spec: a model is declared, registered and its projections are asked.    *)
(***************************************************************************)
Init ==
    /\ schema \in Schemas
    /\ strict \in BOOLEAN
    /\ regStatus = "defined"
    /\ errorField = ""
    /\ policies = NoPolicy
    /\ precomputed = NoPrecomputed
    /\ callRoles = << >>
    /\ projection = NoProjection
    /\ lastOp = "none"
    /\ IdleRoleCheck /\ IdleMerge /\ IdleFilter
    /\ IdleRegistry /\ IdleLifecycle /\ IdlePipeline

\* registerModelPolicyFromSchema, with PolicyRegistry.register on success
RegisterModel ==
    /\ regStatus = "defined"
    /\ LET outcome == registerModelPolicyFromSchema(schema, strict)
       IN /\ regStatus' = outcome.status
          /\ errorField' = outcome.errorField
          /\ IF outcome.status = "registered"
             THEN /\ policies' = [ has |-> TRUE, policy |-> outcome.policy ]
                  /\ precomputed' = precomputeProjections(outcome.policy)
             ELSE UNCHANGED << policies, precomputed >>
    /\ lastOp' = "register"
    /\ UNCHANGED << registryVars, lifecycleVars, pipelineVars,
                    schema, strict, callRoles, projection,
                    allowedRoles, userRoles, roleResult,
                    userProjection, allowedFields, merged,
                    ret, filterCtx, filtered >>

\* PolicyRegistryImpl.computeProjection on the registered policy
ComputeProjection(roles) ==
    /\ policies.has
    /\ callRoles' = roles
    /\ projection' = computeProjection(policies.policy, roles)
    /\ lastOp' = "computeProjection"
    /\ UNCHANGED << registryVars, lifecycleVars, pipelineVars,
                    schema, strict, regStatus, errorField, policies, precomputed,
                    allowedRoles, userRoles, roleResult,
                    userProjection, allowedFields, merged,
                    ret, filterCtx, filtered >>

\* calculateAllowedFields(modelName, roles)
CalculateAllowedFields(roles) ==
    /\ regStatus # "defined"
    /\ callRoles' = roles
    /\ projection' = calculateAllowedFields(policies, roles)
    /\ lastOp' = "calculateAllowedFields"
    /\ UNCHANGED << registryVars, lifecycleVars, pipelineVars,
                    schema, strict, regStatus, errorField, policies, precomputed,
                    allowedRoles, userRoles, roleResult,
                    userProjection, allowedFields, merged,
                    ret, filterCtx, filtered >>

Next ==
    \/ RegisterModel
    \/ \E roles \in CallerRoleLists : ComputeProjection(roles)
    \/ \E roles \in CallerRoleLists : CalculateAllowedFields(roles)

Spec == Init /\ [][Next]_vars

(***************************************************************************)
(* SpecRoles: the role check applied to a rule's roles and a caller's      *)
(* roles.                                                                  *)
(***************************************************************************)
RoleNames == { "admin", "user", "public", "*" }

RoleLists == SeqsUpTo(RoleNames, MaxRoles)

InitRoles ==
    /\ allowedRoles \in RoleLists
    /\ userRoles \in RoleLists
    /\ roleResult = [ done |-> FALSE, array |-> FALSE, fast |-> FALSE ]
    /\ policies = NoPolicy
    /\ callRoles = << >>
    /\ lastOp = "none"
    /\ IdleCompile /\ IdleMerge /\ IdleFilter
    /\ IdleRegistry /\ IdleLifecycle /\ IdlePipeline

\* both checks on the same arguments: checkRoleAccess on the arrays,
\* checkRoleAccessFast on new Set(roles)
CheckRoles ==
    /\ ~ roleResult.done
    /\ roleResult' = [ done |-> TRUE,
                       array |-> checkRoleAccess(allowedRoles, userRoles),
                       fast |-> checkRoleAccessFast(allowedRoles, Range(userRoles)) ]
    /\ lastOp' = "checkRoleAccess"
    /\ UNCHANGED << registryVars, lifecycleVars, pipelineVars,
                    schema, strict, regStatus, errorField, policies, precomputed,
                    callRoles, projection, allowedRoles, userRoles,
                    userProjection, allowedFields, merged,
                    ret, filterCtx, filtered >>

NextRoles == CheckRoles

SpecRoles == InitRoles /\ [][NextRoles]_vars

(***************************************************************************)
(* JavaScript values, as far as the code inspects them.                    *)
(***************************************************************************)
JSNumber(n) == [ type |-> "number", num |-> n, bool |-> FALSE, str |-> "", keys |-> << >> ]
JSBoolean(b) == [ type |-> "boolean", num |-> 0, bool |-> b, str |-> "", keys |-> << >> ]
JSString(t) == [ type |-> "string", num |-> 0, bool |-> FALSE, str |-> t, keys |-> << >> ]
JSObject(keys) == [ type |-> "object", num |-> 0, bool |-> FALSE, str |-> "", keys |-> keys ]
JSNull == [ type |-> "null", num |-> 0, bool |-> FALSE, str |-> "", keys |-> << >> ]
JSUndefined == [ type |-> "undefined", num |-> 0, bool |-> FALSE, str |-> "", keys |-> << >> ]
JSPromise == [ type |-> "promise", num |-> 0, bool |-> FALSE, str |-> "", keys |-> << >> ]

\* typeof value
TypeOf(v) == IF v.type \in { "null", "promise" } THEN "object" ELSE v.type

\* ToBoolean(value)
Truthy(v) ==
    CASE v.type = "number" -> v.num # 0
      [] v.type = "boolean" -> v.bool
      [] v.type = "string" -> v.str # ""
      [] v.type \in { "object", "promise" } -> TRUE
      [] OTHER -> FALSE

\* value === n for a number literal n
IsNumber(v, n) == v.type = "number" /\ v.num = n

\* value === b for a boolean literal b
IsBoolean(v, b) == v.type = "boolean" /\ v.bool = b

\* A JS object, kept as the sequence of its [field, value] entries
ObjHas(obj, field) == \E i \in 1..Len(obj) : obj[i].field = field

ObjGet(obj, field) ==
    obj[CHOOSE i \in 1..Len(obj) : obj[i].field = field].value

\* obj[field] = value: an existing key keeps its position
ObjSet(obj, field, value) ==
    IF ObjHas(obj, field)
    THEN [ i \in 1..Len(obj) |->
             IF obj[i].field = field
             THEN [field |-> field, value |-> value] ELSE obj[i] ]
    ELSE Append(obj, [field |-> field, value |-> value])

(***************************************************************************)
(* mergeProjections (pipeline-utils.ts).                                   *)
(***************************************************************************)
\* detectProjectionMode(projection): the first entry other than _id decides
RECURSIVE detectProjectionMode(_)
detectProjectionMode(proj) ==
    IF proj = << >> THEN "inclusion"
    ELSE LET field == Head(proj).field
             value == Head(proj).value
         IN IF field = "_id" THEN detectProjectionMode(Tail(proj))
            ELSE IF IsNumber(value, 0) \/ IsBoolean(value, FALSE) THEN "exclusion"
            ELSE IF \/ IsNumber(value, 1) \/ IsBoolean(value, TRUE)
                    \/ TypeOf(value) = "object" \/ TypeOf(value) = "string"
                 THEN "inclusion"
            ELSE detectProjectionMode(Tail(proj))

\* isComputedField(value)
isComputedField(value) ==
    IF TypeOf(value) = "string" /\ startsWith(value.str, "$") THEN TRUE
    ELSE IF TypeOf(value) = "object" /\ value.type # "null"
         THEN \E i \in 1..Len(value.keys) : startsWith(value.keys[i], "$")
         ELSE FALSE

\* for (const field of allowedFields) merged[field] = 1
RECURSIVE IncludeAll(_, _)
IncludeAll(obj, fields) ==
    IF fields = << >> THEN obj
    ELSE IncludeAll(ObjSet(obj, Head(fields), JSNumber(1)), Tail(fields))

\* for (const field of allowedFields) if (!(field in merged)) merged[field] = 1
RECURSIVE IncludeMissing(_, _)
IncludeMissing(obj, fields) ==
    IF fields = << >> THEN obj
    ELSE IncludeMissing(IF ObjHas(obj, Head(fields)) THEN obj
                        ELSE ObjSet(obj, Head(fields), JSNumber(1)),
                        Tail(fields))

\* exclusion mode: only the caller's _id: 0 is applied
RECURSIVE ApplyIdExclusion(_, _)
ApplyIdExclusion(obj, proj) ==
    IF proj = << >> THEN obj
    ELSE ApplyIdExclusion(
             IF Head(proj).field = "_id" /\ IsNumber(Head(proj).value, 0)
             THEN ObjSet(obj, "_id", JSNumber(0)) ELSE obj,
             Tail(proj))

\* A plausible slip: every caller key is kept, allowed or not
KeepUserFieldUnchecked(obj, entry, allowed) ==
    ObjSet(obj, entry.field, entry.value)

\* inclusion mode, body of the loop over the caller's entries
KeepUserField(obj, entry, allowed) ==
    IF entry.field = "_id" THEN ObjSet(obj, "_id", entry.value)
    ELSE IF Contains(allowed, entry.field)
         THEN ObjSet(obj, entry.field, entry.value)
    ELSE IF isComputedField(entry.value)
         THEN ObjSet(obj, entry.field, entry.value)
    ELSE obj

RECURSIVE KeepUserFields(_, _, _)
KeepUserFields(obj, proj, allowed) ==
    IF proj = << >> THEN obj
    ELSE KeepUserFields(KeepUserField(obj, Head(proj), allowed), Tail(proj), allowed)

\* mergeProjections(userProjection, allowedFields)
mergeProjections(proj, allowed) ==
    IF detectProjectionMode(proj) = "exclusion"
    THEN ApplyIdExclusion(IncludeAll(<< >>, allowed), proj)
    ELSE IncludeMissing(KeepUserFields(<< >>, proj, allowed), allowed)

(***************************************************************************)
(* SpecMerge: mergeProjections applied to a caller's $project stage.       *)
(***************************************************************************)
MaxStage == 2       \* keys of a caller-authored $project stage

StageFields == { "_id", "name", "ssn", "total" }

StageValues ==
    { JSNumber(0), JSNumber(1), JSNumber(2), JSBoolean(FALSE), JSBoolean(TRUE),
      JSString("$ssn"), JSString("ssn"),
      JSObject(<< "$concat" >>), JSObject(<< "first" >>), JSNull }

StageEntries == { [field |-> f, value |-> v] : f \in StageFields, v \in StageValues }

\* object literals: no key twice
UserProjections ==
    { p \in SeqsUpTo(StageEntries, MaxStage) :
        \A i, j \in 1..Len(p) : i # j => p[i].field # p[j].field }

\* selectFields lists a policy over name and ssn can give, and one without _id
AllowedFieldLists ==
    { << "_id" >>, << "_id", "name" >>, << "_id", "ssn" >>,
      << "_id", "name", "ssn" >>, << "name" >> }

InitMerge ==
    /\ userProjection \in UserProjections
    /\ allowedFields \in AllowedFieldLists
    /\ merged = [ done |-> FALSE, stage |-> << >> ]
    /\ policies = NoPolicy
    /\ callRoles = << >>
    /\ lastOp = "none"
    /\ IdleCompile /\ IdleRoleCheck /\ IdleFilter
    /\ IdleRegistry /\ IdleLifecycle /\ IdlePipeline

MergeProjections ==
    /\ ~ merged.done
    /\ merged' = [ done |-> TRUE,
                   stage |-> mergeProjections(userProjection, allowedFields) ]
    /\ lastOp' = "mergeProjections"
    /\ UNCHANGED << registryVars, lifecycleVars, pipelineVars,
                    schema, strict, regStatus, errorField, policies, precomputed,
                    callRoles, projection, allowedRoles, userRoles, roleResult,
                    userProjection, allowedFields, ret, filterCtx, filtered >>

NextMerge == MergeProjections

SpecMerge == InitMerge /\ [][NextMerge]_vars

(***************************************************************************)
(* Record filter: applyPostFiltering (install v2.1, document v2).          *)
(*                                                                         *)
(* A condition or transform is a function of the schema author; the model  *)
(* names the functions it uses and gives for each what a call does:        *)
(* return a value or throw.                                                *)
(***************************************************************************)
Returned(v) == [ threw |-> FALSE, value |-> v ]
Thrown == [ threw |-> TRUE, value |-> JSUndefined ]

\* config.condition(ctx)
CallCondition(condition, ctx) ==
    CASE condition = "owner" ->
             Returned(JSBoolean(ObjHas(ctx.document, "ownerId")
                                /\ ObjGet(ctx.document, "ownerId") = JSString(ctx.userId)))
      [] condition = "throws" -> Thrown
      [] condition = "async" -> Returned(JSPromise)
      [] condition = "truthy" -> Returned(JSNumber(1))
      [] condition = "falsy" -> Returned(JSUndefined)
      [] OTHER -> Returned(JSBoolean(TRUE))

\* config.transform(value, ctx)
CallTransform(transform, value, ctx) ==
    CASE transform = "mask" -> Returned(JSString("***"))
      [] transform = "throws" -> Thrown
      [] transform = "async" -> Returned(JSPromise)
      [] OTHER -> Returned(value)

Skip == [ kind |-> "skip", value |-> JSUndefined ]
Put(v) == [ kind |-> "put", value |-> v ]
Propagate == [ kind |-> "throw", value |-> JSUndefined ]

\* A plausible slip: a failed transform drops the field like a failed condition
TransformStepDropOnError(config, value, ctx) ==
    IF config.transform = "none" THEN Put(value)
    ELSE LET call == CallTransform(config.transform, value, ctx)
         IN IF call.threw THEN Skip
            ELSE IF call.value.type = "promise" THEN Put(value)
            ELSE Put(call.value)

\* The try block around config.transform: what lands in result[field]
TransformStep(config, value, ctx) ==
    IF config.transform = "none" THEN Put(value)
    ELSE LET call == CallTransform(config.transform, value, ctx)
         IN IF call.threw THEN Put(value)
            ELSE IF call.value.type = "promise" THEN Put(value)
            ELSE Put(call.value)

\* A plausible slip: the call is not inside a try block, the error escapes
ConditionStepUncaught(config, ctx) ==
    IF config.condition = "none" THEN "pass"
    ELSE LET call == CallCondition(config.condition, ctx)
         IN IF call.threw THEN "throw"
            ELSE IF call.value.type = "promise" THEN "skip"
            ELSE IF ~ Truthy(call.value) THEN "skip"
            ELSE "pass"

\* The try block around config.condition: "skip" is the `continue`; an
\* exception that is not caught would leave the function ("throw")
ConditionStep(config, ctx) ==
    IF config.condition = "none" THEN "pass"
    ELSE LET call == CallCondition(config.condition, ctx)
         IN IF call.threw THEN "skip"
            ELSE IF call.value.type = "promise" THEN "skip"
            ELSE IF ~ Truthy(call.value) THEN "skip"
            ELSE "pass"

\* Body of the loop over Object.entries(ret)
FilterField(policy, entry, document, context) ==
    IF ~ PolicyHas(policy, entry.field)
    THEN IF entry.field = "_id" \/ entry.field = "__v" THEN Put(entry.value) ELSE Skip
    ELSE LET config == PolicyGet(policy, entry.field)
             ctx == [ roles |-> context.roles, userId |-> context.userId,
                      document |-> document, field |-> entry.field ]
             condition == ConditionStep(config, ctx)
         IN IF ~ checkRoleAccess(config.roles, context.roles) THEN Skip
            ELSE IF condition = "throw" THEN Propagate
            ELSE IF condition = "skip" THEN Skip
            ELSE TransformStep(config, entry.value, ctx)

RECURSIVE FilterEntries(_, _, _, _, _)
FilterEntries(policy, entries, document, context, acc) ==
    IF acc.threw \/ entries = << >> THEN acc
    ELSE LET step == FilterField(policy, Head(entries), document, context)
             next == CASE step.kind = "put" ->
                              [acc EXCEPT !.result =
                                  ObjSet(@, Head(entries).field, step.value)]
                        [] step.kind = "throw" -> [acc EXCEPT !.threw = TRUE]
                        [] OTHER -> acc
         IN FilterEntries(policy, Tail(entries), document, context, next)

\* applyPostFiltering(ret, modelName, context)
applyPostFiltering(registered, document, context) ==
    IF ~ registered.has
    THEN [ done |-> TRUE, threw |-> FALSE, result |-> document ]
    ELSE FilterEntries(registered.policy, document, document, context,
                       [ done |-> TRUE, threw |-> FALSE, result |-> << >> ])

(***************************************************************************)
(* SpecFilter: a fetched record of a registered model is serialized.       *)
(***************************************************************************)
Conditions == { "none", "owner", "throws", "async", "truthy", "falsy" }

Transforms == { "none", "mask", "throws", "async" }

Rule(field, roles, condition, transform) ==
    [ field |-> field,
      config |-> [ roles |-> roles, condition |-> condition,
                   transform |-> transform, synthesized |-> FALSE ] ]

NameRules ==
    { Rule("name", << "public" >>, "none", "none"),
      Rule("name", << "user" >>, "none", "mask"),
      Rule("name", << >>, "none", "none") }

DataRules ==
    { Rule("data", << "user" >>, c, t) : c \in Conditions, t \in Transforms }
        \cup { Rule("data", << "public" >>, "owner", "throws") }

\* policies of registered models: at least one rule
FilterPolicies ==
    { << n >> : n \in NameRules } \cup { << d >> : d \in DataRules }
        \cup { << n, d >> : n \in NameRules, d \in DataRules }

Field(field, value) == [ field |-> field, value |-> value ]

\* fetched records: _id and ownerId, then any of __v, name, data
Records ==
    { << Field("_id", JSString("id1")), Field("ownerId", JSString("u1")) >>
          \o v \o n \o d :
      v \in { << >>, << Field("__v", JSNumber(0)) >> },
      n \in { << >>, << Field("name", JSString("Ann")) >> },
      d \in { << >>, << Field("data", JSString("secret")) >> } }

UserIds == { "u1", "u2" }

InitFilter ==
    /\ policies \in { [ has |-> TRUE, policy |-> p ] : p \in FilterPolicies }
                       \cup { NoPolicy }
    /\ ret \in Records
    /\ filterCtx \in { [ roles |-> r, userId |-> u ] :
                         r \in CallerRoleLists, u \in UserIds }
    /\ filtered = [ done |-> FALSE, threw |-> FALSE, result |-> << >> ]
    /\ callRoles = << >>
    /\ lastOp = "none"
    /\ IdleCompile /\ IdleRoleCheck /\ IdleMerge
    /\ IdleRegistry /\ IdleLifecycle /\ IdlePipeline

ApplyPostFiltering ==
    /\ ~ filtered.done
    /\ filtered' = applyPostFiltering(policies, ret, filterCtx)
    /\ lastOp' = "applyPostFiltering"
    /\ UNCHANGED << registryVars, lifecycleVars, pipelineVars,
                    schema, strict, regStatus, errorField, policies, precomputed,
                    callRoles, projection, allowedRoles, userRoles, roleResult,
                    userProjection, allowedFields, merged, ret, filterCtx >>

NextFilter == ApplyPostFiltering

SpecFilter == InitFilter /\ [][NextFilter]_vars

(***************************************************************************)
(* PolicyRegistry.getProjection with its multi-role cache, register and    *)
(* clear (registry.ts).                                                    *)
(***************************************************************************)
\* The role names of the model in the order Array.prototype.sort() gives
\* them (comparison by UTF-16 code units)
SortedRoleNames == << "*", "admin", "admin,user", "guest", "public", "user" >>

CodeUnitRank(role) ==
    CHOOSE i \in 1..Len(SortedRoleNames) : SortedRoleNames[i] = role

\* [...roles].sort()
RECURSIVE sort(_)
sort(roles) ==
    IF roles = << >> THEN << >>
    ELSE LET front == sort(SubSeq(roles, 1, Len(roles) - 1))
             x == roles[Len(roles)]
             keep == SelectSeq(front, LAMBDA y : CodeUnitRank(y) <= CodeUnitRank(x))
             rest == SelectSeq(front, LAMBDA y : CodeUnitRank(y) > CodeUnitRank(x))
         IN keep \o << x >> \o rest

\* Array.prototype.join(',')
RECURSIVE joinComma(_)
joinComma(parts) ==
    IF parts = << >> THEN ""
    ELSE IF Len(parts) = 1 THEN parts[1]
    ELSE parts[1] \o "," \o joinComma(Tail(parts))

\* multiRoleCache: a JS Map from cache key to CachedProjection
CacheHas(cache, key) == \E i \in 1..Len(cache) : cache[i].key = key

CacheGet(cache, key) ==
    cache[CHOOSE i \in 1..Len(cache) : cache[i].key = key].projection

CacheSet(cache, key, value) ==
    IF CacheHas(cache, key)
    THEN [ i \in 1..Len(cache) |->
             IF cache[i].key = key
             THEN [ key |-> key, projection |-> value ] ELSE cache[i] ]
    ELSE Append(cache, [ key |-> key, projection |-> value ])

\* return null
Null(pre) ==
    [ isNull |-> TRUE, value |-> NoProjection, precomputed |-> pre, computed |-> FALSE ]

\* return cached
Hit(pre, value) ==
    [ isNull |-> FALSE, value |-> value, precomputed |-> pre, computed |-> FALSE ]

\* A plausible slip: the computed projection is not stored in multiRoleCache
getProjectionNoStore(registered, pre, roles) ==
    IF ~ pre.has THEN Null(pre)
    ELSE IF Len(roles) = 1 /\ roles[1] \in DOMAIN pre.singleRoleProjections
    THEN Hit(pre, pre.singleRoleProjections[roles[1]])
    ELSE LET cacheKey == joinComma(sort(roles))
         IN IF CacheHas(pre.multiRoleCache, cacheKey)
            THEN Hit(pre, CacheGet(pre.multiRoleCache, cacheKey))
            ELSE IF ~ registered.has THEN Null(pre)
            ELSE [ isNull |-> FALSE,
                   value |-> computeProjection(registered.policy, roles),
                   precomputed |-> pre,
                   computed |-> TRUE ]

\* PolicyRegistryImpl.getProjection(modelName, roles): the value returned,
\* the precomputed entry after the call, and whether computeProjection ran
getProjection(registered, pre, roles) ==
    IF ~ pre.has THEN Null(pre)
    ELSE IF Len(roles) = 1 /\ roles[1] \in DOMAIN pre.singleRoleProjections
    THEN Hit(pre, pre.singleRoleProjections[roles[1]])
    ELSE LET cacheKey == joinComma(sort(roles))
         IN IF CacheHas(pre.multiRoleCache, cacheKey)
            THEN Hit(pre, CacheGet(pre.multiRoleCache, cacheKey))
            ELSE IF ~ registered.has THEN Null(pre)
            ELSE LET computedProjection == computeProjection(registered.policy, roles)
                 IN [ isNull |-> FALSE,
                      value |-> computedProjection,
                      precomputed |->
                          [pre EXCEPT !.multiRoleCache =
                              CacheSet(@, cacheKey, computedProjection)],
                      computed |-> TRUE ]

\* the roles precomputeProjections iterates over, in the order of the Set
AllRolesInOrder(policy) ==
    SetAdd(SetAdd(UnionOfRoles(policy, << >>), "public"), "*")

(***************************************************************************)
(* SpecRegistry: a compiled policy is registered, projections are asked    *)
(* for and the registry is cleared.                                        *)
(***************************************************************************)
MaxCalls == 3       \* getProjection calls after a register or clear

Declare(name, shield, sub) ==
    [ name |-> name, shield |-> shield, hasSchema |-> sub # << >>, schema |-> sub ]

RegistrySchemas ==
    { << Declare("name", Shield(<< "admin" >>, "none", "none"), << >>),
         Declare("x", NoShield,
                 << Declare("b", Shield(<< "user" >>, "owner", "mask"), << >>) >>) >>,
      << Declare("name", Shield(<< "public" >>, "none", "none"), << >>),
         Declare("x", Shield(<< "admin", "user" >>, "none", "none"), << >>) >>,
      << Declare("name", Shield(<< >>, "none", "none"), << >>) >> }

RegistryRoles == { "admin", "user", "guest" }

RegistryRoleLists == SeqsUpTo(RegistryRoles, MaxRoles)

InitRegistry ==
    /\ schema \in RegistrySchemas
    /\ strict = TRUE
    /\ regStatus = "defined"
    /\ errorField = ""
    /\ policies = NoPolicy
    /\ precomputed = NoPrecomputed
    /\ projection = NoProjection
    /\ callRoles = << >>
    /\ lastOp = "none"
    /\ IdleRegistry
    /\ IdleRoleCheck /\ IdleMerge /\ IdleFilter /\ IdleLifecycle /\ IdlePipeline

\* PolicyRegistry.register(modelName, policy) with the compiled policy
Register ==
    /\ LET policy == parseSchemaShield(schema).policy
           roles == AllRolesInOrder(policy)
       IN /\ policies' = [ has |-> TRUE, policy |-> policy ]
          /\ precomputed' = precomputeProjections(policy)
          /\ computeLog' = [ i \in 1..Len(roles) |-> << roles[i] >> ]
    /\ calls' = 0
    /\ lastOp' = "register"
    /\ UNCHANGED << got, callers, lifecycleVars, pipelineVars,
                    schema, strict, regStatus, errorField,
                    callRoles, projection, allowedRoles, userRoles, roleResult,
                    userProjection, allowedFields, merged, ret, filterCtx, filtered >>

\* PolicyRegistry.getProjection(modelName, roles)
GetProjection(roles) ==
    /\ calls < MaxCalls
    /\ LET call == getProjection(policies, precomputed, roles)
       IN /\ got' = [ done |-> TRUE, isNull |-> call.isNull, value |-> call.value ]
          /\ precomputed' = call.precomputed
          /\ computeLog' = IF call.computed THEN Append(computeLog, roles)
                           ELSE computeLog
    /\ callRoles' = roles
    /\ calls' = calls + 1
    /\ lastOp' = "getProjection"
    /\ UNCHANGED << callers, lifecycleVars, pipelineVars,
                    schema, strict, regStatus, errorField, policies,
                    projection, allowedRoles, userRoles, roleResult,
                    userProjection, allowedFields, merged, ret, filterCtx, filtered >>

\* PolicyRegistry.clear()
Clear ==
    /\ policies' = NoPolicy
    /\ precomputed' = NoPrecomputed
    /\ computeLog' = << >>
    /\ calls' = 0
    /\ lastOp' = "clear"
    /\ UNCHANGED << got, callers, lifecycleVars, pipelineVars,
                    schema, strict, regStatus, errorField,
                    callRoles, projection, allowedRoles, userRoles, roleResult,
                    userProjection, allowedFields, merged, ret, filterCtx, filtered >>

NextRegistry ==
    \/ Register
    \/ \E roles \in RegistryRoleLists : GetProjection(roles)
    \/ Clear

SpecRegistry == InitRegistry /\ [][NextRegistry]_vars

(***************************************************************************)
(* Aggregation pipelines (pipeline-utils.ts). A stage is kept as its first *)
(* key, Object.keys(stage)[0], and the value under that key.               *)
(***************************************************************************)
FIRST_ONLY_STAGES ==
    << "$geoNear", "$collStats", "$indexStats", "$listSessions",
       "$currentOp", "$planCacheStats" >>

Stage(key, body) == [ key |-> key, body |-> body ]

\* the stage {}: Object.keys(stage)[0] is undefined
EmptyStage == Stage("undefined", << >>)

\* A plausible slip: a $sort is skipped whatever precedes it
ScanStagesAnySort(stages, i, index) ==
    LET RECURSIVE Scan(_, _)
        Scan(k, n) ==
            IF k > Len(stages) THEN n
            ELSE IF Contains(FIRST_ONLY_STAGES, stages[k].key) THEN Scan(k + 1, n + 1)
            ELSE IF stages[k].key = "$match" THEN Scan(k + 1, n + 1)
            ELSE IF stages[k].key = "$sort" THEN Scan(k + 1, n + 1)
            ELSE n
    IN Scan(i, index)

\* The loop `for (const stage of pipeline)` from its i-th stage on, with the
\* current value of insertIndex
RECURSIVE ScanStages(_, _, _)
ScanStages(stages, i, index) ==
    IF i > Len(stages) THEN index
    ELSE LET stageKey == stages[i].key
         IN IF Contains(FIRST_ONLY_STAGES, stageKey)
            THEN ScanStages(stages, i + 1, index + 1)
            ELSE IF stageKey = "$match"
            THEN ScanStages(stages, i + 1, index + 1)
            ELSE IF /\ stageKey = "$sort"
                    /\ index > 0
                    /\ index <= Len(stages)
                    /\ stages[index].key = "$match"
            THEN ScanStages(stages, i + 1, index + 1)
            ELSE index

findSafeProjectInsertIndex(stages) == ScanStages(stages, 1, 0)

(***************************************************************************)
(* SpecPipeline: findSafeProjectInsertIndex on a caller's pipeline.        *)
(***************************************************************************)
MaxPipeline == 3    \* stages of a pipeline

StageKeys ==
    { "$geoNear", "$collStats", "$match", "$sort", "$group", "$limit" }

Stages == { Stage(k, << >>) : k \in StageKeys } \cup { EmptyStage }

Pipelines == SeqsUpTo(Stages, MaxPipeline)

InitPipeline ==
    /\ pipeline \in Pipelines
    /\ insertIndex = [ done |-> FALSE, index |-> 0 ]
    /\ policies = NoPolicy
    /\ callRoles = << >>
    /\ lastOp = "none"
    /\ IdleCompile /\ IdleRoleCheck /\ IdleMerge /\ IdleFilter
    /\ IdleRegistry /\ IdleLifecycle

FindSafeProjectInsertIndex ==
    /\ ~ insertIndex.done
    /\ insertIndex' = [ done |-> TRUE, index |-> findSafeProjectInsertIndex(pipeline) ]
    /\ lastOp' = "findSafeProjectInsertIndex"
    /\ UNCHANGED << registryVars, lifecycleVars, pipeline,
                    schema, strict, regStatus, errorField, policies, precomputed,
                    callRoles, projection, allowedRoles, userRoles, roleResult,
                    userProjection, allowedFields, merged, ret, filterCtx, filtered >>

NextPipeline == FindSafeProjectInsertIndex

SpecPipeline == InitPipeline /\ [][NextPipeline]_vars

(***************************************************************************)
(* The per-schema middleware of the plugin (install v2.1): lazy            *)
(* registration, pre and post hooks of the query operations, pre hook of   *)
(* aggregate.                                                              *)
(***************************************************************************)
queryOps ==
    << "find", "findOne", "findOneAndUpdate", "findOneAndDelete",
       "findOneAndReplace" >>

\* pipeline.findIndex(stage => '$project' in stage), 0-based, -1 if none
findProjectStageIndex(stages) ==
    LET found == { i \in 1..Len(stages) : stages[i].key = "$project" }
    IN IF found = {} THEN -1
       ELSE (CHOOSE i \in found : \A j \in found : i <= j) - 1

\* pipeline.splice(index, 0, stage)
splice(stages, index, stage) ==
    SubSeq(stages, 1, index) \o << stage >> \o SubSeq(stages, index + 1, Len(stages))

\* The registry and processedModels after registerModelPolicyFromSchema has
\* ended with the given outcome; a ShieldError leaves the hook before
\* processedModels.add
AfterRegistration(outcome) ==
    [ status |-> outcome.status,
      errorField |-> outcome.errorField,
      policies |-> IF outcome.status = "registered"
                   THEN [ has |-> TRUE, policy |-> outcome.policy ]
                   ELSE policies,
      precomputed |-> IF outcome.status = "registered"
                      THEN precomputeProjections(outcome.policy)
                      ELSE precomputed,
      processed |-> outcome.status # "shieldError" ]

\* "Lazy registration: parse and register policy on first query"
LazyRegistration ==
    IF ~ processedModels /\ ~ policies.has
    THEN AfterRegistration(registerModelPolicyFromSchema(schema, strict))
    ELSE [ status |-> regStatus, errorField |-> errorField,
           policies |-> policies, precomputed |-> precomputed,
           processed |-> processedModels ]

\* the ShieldError of strict validation has left the hook: the registry has
\* no entry and the model name was not added to processedModels
RegistrationThrew ==
    regStatus = "shieldError" /\ ~ processedModels /\ ~ policies.has

\* A plausible slip: a query without .role() is treated as a query without
\* roles instead of raising ShieldError.missingRole
preQueryNoRoleCheck(threw, registered, q) ==
    IF threw
    THEN [q EXCEPT !.phase = "failed", !.error = "missingShieldConfig"]
    ELSE IF q.bypassed THEN [q EXCEPT !.phase = "executing"]
    ELSE IF ~ registered.has THEN [q EXCEPT !.phase = "executing"]
    ELSE LET allowed == calculateAllowedFields(registered, q.roles)
         IN [q EXCEPT !.phase = "executing",
                      !.selected = TRUE,
                      !.selectFields = allowed.selectFields,
                      !.optionsSet = TRUE,
                      !.conditionFields = allowed.conditionFields]

\* schema.pre(op, ...) after the lazy registration (threw: its ShieldError
\* left the hook; registered: the registry entry after it): the query as the
\* hook leaves it
preQuery(threw, registered, q) ==
    IF threw
    THEN [q EXCEPT !.phase = "failed", !.error = "missingShieldConfig"]
    ELSE IF q.bypassed THEN [q EXCEPT !.phase = "executing"]
    ELSE IF ~ registered.has THEN [q EXCEPT !.phase = "executing"]
    ELSE IF ~ q.rolesSet
    THEN [q EXCEPT !.phase = "failed", !.error = "missingRole", !.errorOp = q.op]
    ELSE LET allowed == calculateAllowedFields(registered, q.roles)
         IN [q EXCEPT !.phase = "executing",
                      !.selected = TRUE,
                      !.selectFields = allowed.selectFields,
                      !.optionsSet = TRUE,
                      !.conditionFields = allowed.conditionFields]

\* A plausible slip: the $project stage is inserted even when the pipeline
\* has one already
preAggregateAlwaysInsert(threw, registered, q) ==
    IF threw
    THEN [ query |-> [q EXCEPT !.phase = "failed", !.error = "missingShieldConfig"],
           pipeline |-> q.given ]
    ELSE IF q.bypassed \/ ~ registered.has
    THEN [ query |-> [q EXCEPT !.phase = "done"], pipeline |-> q.given ]
    ELSE IF ~ q.rolesSet
    THEN [ query |-> [q EXCEPT !.phase = "failed",
                               !.error = "missingRoleOnAggregate",
                               !.errorOp = "aggregate"],
           pipeline |-> q.given ]
    ELSE LET selectFields == calculateAllowedFields(registered, q.roles).selectFields
         IN [ query |-> [q EXCEPT !.phase = "done", !.selectFields = selectFields],
              pipeline |->
                  splice(q.given, findSafeProjectInsertIndex(q.given),
                         Stage("$project", IncludeAll(<< >>, selectFields))) ]

\* schema.pre('aggregate', ...) after the lazy registration: the aggregate
\* and its pipeline as the hook leaves them
preAggregate(threw, registered, q) ==
    IF threw
    THEN [ query |-> [q EXCEPT !.phase = "failed", !.error = "missingShieldConfig"],
           pipeline |-> q.given ]
    ELSE IF q.bypassed \/ ~ registered.has
    THEN [ query |-> [q EXCEPT !.phase = "done"], pipeline |-> q.given ]
    ELSE IF ~ q.rolesSet
    THEN [ query |-> [q EXCEPT !.phase = "failed",
                               !.error = "missingRoleOnAggregate",
                               !.errorOp = "aggregate"],
           pipeline |-> q.given ]
    ELSE LET selectFields == calculateAllowedFields(registered, q.roles).selectFields
             existingProjectIndex == findProjectStageIndex(q.given)
             done == [q EXCEPT !.phase = "done", !.selectFields = selectFields]
         IN IF existingProjectIndex >= 0
            THEN [ query |-> done,
                   pipeline |->
                       [q.given EXCEPT ![existingProjectIndex + 1] =
                           Stage("$project", mergeProjections(@.body, selectFields))] ]
            ELSE [ query |-> done,
                   pipeline |->
                       splice(q.given, findSafeProjectInsertIndex(q.given),
                              Stage("$project", IncludeAll(<< >>, selectFields))) ]

(***************************************************************************)
(* SpecQuery: a model is defined and queries and aggregations run on it.   *)
(***************************************************************************)
QuerySchemas ==
    { << Declare("name", Shield(<< "public" >>, "none", "none"), << >>),
         Declare("x", NoShield,
                 << Declare("b", Shield(<< "user" >>, "owner", "mask"), << >>) >>) >>,
      << Declare("name", Shield(<< "admin" >>, "none", "none"), << >>),
         Declare("x", NoShield, << >>) >>,
      << Declare("name", NoShield, << >>) >>,
      << Declare("name", MalformedShield, << >>) >> }

\* what .role() has left on the query: nothing, or an array of roles
RoleOptions ==
    { [ set |-> FALSE, roles |-> << >> ],
      [ set |-> TRUE, roles |-> << >> ],
      [ set |-> TRUE, roles |-> << "admin" >> ],
      [ set |-> TRUE, roles |-> << "user", "admin" >> ] }

AggregatePipelines ==
    { << >>,
      << Stage("$match", << >>) >>,
      << Stage("$geoNear", << >>), Stage("$match", << >>), Stage("$group", << >>) >>,
      << Stage("$match", << >>),
         Stage("$project", << [ field |-> "name", value |-> JSNumber(1) ],
                              [ field |-> "x", value |-> JSNumber(1) ] >>) >>,
      << Stage("$project", << [ field |-> "x.b", value |-> JSNumber(0) ] >>) >> }

InitQuery ==
    /\ schema \in QuerySchemas
    /\ strict \in BOOLEAN
    /\ regStatus = "defined"
    /\ errorField = ""
    /\ policies = NoPolicy
    /\ precomputed = NoPrecomputed
    /\ projection = NoProjection
    /\ callRoles = << >>
    /\ lastOp = "none"
    /\ modelDefined = FALSE
    /\ processedModels = FALSE
    /\ query = NoQuery
    /\ IdlePipeline
    /\ IdleRegistry /\ IdleRoleCheck /\ IdleMerge /\ IdleFilter

\* mongoose.model(name, schema): the plugin registers the hooks on the schema
DefineModel ==
    /\ ~ modelDefined
    /\ modelDefined' = TRUE
    /\ lastOp' = "model"
    /\ UNCHANGED << registryVars, pipelineVars, processedModels, query,
                    schema, strict, regStatus, errorField, policies, precomputed,
                    callRoles, projection, allowedRoles, userRoles, roleResult,
                    userProjection, allowedFields, merged, ret, filterCtx, filtered >>

\* pre hook of find, findOne, findOneAndUpdate, findOneAndDelete,
\* findOneAndReplace
PreQuery(op, roleOption, bypass) ==
    /\ modelDefined
    /\ query.phase # "executing"
    /\ \E reg \in { LazyRegistration } :
          /\ regStatus' = reg.status
          /\ errorField' = reg.errorField
          /\ policies' = reg.policies
          /\ precomputed' = reg.precomputed
          /\ processedModels' = reg.processed
    /\ query' = preQuery(RegistrationThrew', policies',
                         [NoQuery EXCEPT !.op = op, !.rolesSet = roleOption.set,
                                         !.roles = roleOption.roles,
                                         !.bypassed = bypass])
    /\ pipeline' = << >>
    /\ lastOp' = op
    /\ UNCHANGED << registryVars, insertIndex, modelDefined,
                    schema, strict,
                    callRoles, projection, allowedRoles, userRoles, roleResult,
                    userProjection, allowedFields, merged, ret, filterCtx, filtered >>

\* post hook of the query operations; found: the query returned a document
PostQuery(found) ==
    /\ query.phase = "executing"
    /\ query' = [query EXCEPT
                     !.phase = "done",
                     !.contextAttached =
                         ~ query.bypassed /\ found /\ query.rolesSet]
    /\ lastOp' = "post"
    /\ UNCHANGED << registryVars, pipelineVars, modelDefined, processedModels,
                    schema, strict, regStatus, errorField, policies, precomputed,
                    callRoles, projection, allowedRoles, userRoles, roleResult,
                    userProjection, allowedFields, merged, ret, filterCtx, filtered >>

\* pre hook of aggregate on the pipeline the caller built
PreAggregate(roleOption, bypass, given) ==
    /\ modelDefined
    /\ query.phase # "executing"
    /\ \E reg \in { LazyRegistration } :
          /\ regStatus' = reg.status
          /\ errorField' = reg.errorField
          /\ policies' = reg.policies
          /\ precomputed' = reg.precomputed
          /\ processedModels' = reg.processed
    /\ \E after \in { preAggregate(RegistrationThrew', policies',
                                     [NoQuery EXCEPT !.op = "aggregate",
                                                     !.rolesSet = roleOption.set,
                                                     !.roles = roleOption.roles,
                                                     !.bypassed = bypass,
                                                     !.given = given]) } :
          /\ query' = after.query
          /\ pipeline' = after.pipeline
    /\ lastOp' = "aggregate"
    /\ UNCHANGED << registryVars, insertIndex, modelDefined,
                    schema, strict,
                    callRoles, projection, allowedRoles, userRoles, roleResult,
                    userProjection, allowedFields, merged, ret, filterCtx, filtered >>

NextQuery ==
    \/ DefineModel
    \/ \E op \in Range(queryOps), roleOption \in RoleOptions, bypass \in BOOLEAN :
           PreQuery(op, roleOption, bypass)
    \/ \E found \in BOOLEAN : PostQuery(found)
    \/ \E roleOption \in RoleOptions, bypass \in BOOLEAN,
          given \in AggregatePipelines :
           PreAggregate(roleOption, bypass, given)

SpecQuery == InitQuery /\ [][NextQuery]_vars

(***************************************************************************)
(* SpecConcurrent: two callers ask the registry for projections of the     *)
(* registered model. getProjection is taken in two steps, the lookup in    *)
(* the caches and, after a miss, the computation with multiRoleCache.set:  *)
(* JavaScript runs a call to its end, a host with parallel callers may     *)
(* interleave them between these two steps.                                *)
(***************************************************************************)
\* A plausible slip: the projection is computed for the first role only
computeAndStoreFirstRole(registered, pre, roles) ==
    IF ~ registered.has THEN Null(pre)
    ELSE LET computedProjection ==
                 computeProjection(registered.policy,
                                   IF roles = << >> THEN roles ELSE << roles[1] >>)
         IN [ isNull |-> FALSE,
              value |-> computedProjection,
              precomputed |->
                  [pre EXCEPT !.multiRoleCache =
                      CacheSet(@, joinComma(sort(roles)), computedProjection)],
              computed |-> TRUE ]

\* getProjection after the miss in multiRoleCache: "Compute and cache for
\* this role combination"
computeAndStore(registered, pre, roles) ==
    IF ~ registered.has THEN Null(pre)
    ELSE LET computedProjection == computeProjection(registered.policy, roles)
         IN [ isNull |-> FALSE,
              value |-> computedProjection,
              precomputed |->
                  [pre EXCEPT !.multiRoleCache =
                      CacheSet(@, joinComma(sort(roles)), computedProjection)],
              computed |-> TRUE ]

InitConcurrent ==
    /\ schema \in RegistrySchemas
    /\ strict = TRUE
    /\ regStatus = "defined"
    /\ errorField = ""
    /\ policies = NoPolicy
    /\ precomputed = NoPrecomputed
    /\ projection = NoProjection
    /\ callRoles = << >>
    /\ lastOp = "none"
    /\ IdleRegistry
    /\ IdleRoleCheck /\ IdleMerge /\ IdleFilter /\ IdleLifecycle /\ IdlePipeline

\* PolicyRegistry.register(modelName, policy), once, before the lookups
RegisterOnce ==
    /\ ~ policies.has
    /\ Register

\* getProjection up to the look into multiRoleCache: a hit returns, a miss
\* goes on to the computation
Lookup(c, roles) ==
    /\ policies.has
    /\ callers[c].pc = "idle"
    /\ LET call == getProjection(policies, precomputed, roles)
       IN callers' = [callers EXCEPT ![c] =
              IF call.computed
              THEN [ pc |-> "miss", roles |-> roles, isNull |-> FALSE,
                     value |-> NoProjection, computed |-> FALSE ]
              ELSE [ pc |-> "done", roles |-> roles, isNull |-> call.isNull,
                     value |-> call.value, computed |-> FALSE ]]
    /\ callRoles' = roles
    /\ lastOp' = "lookup"
    /\ UNCHANGED << got, computeLog, calls, lifecycleVars, pipelineVars,
                    schema, strict, regStatus, errorField, policies, precomputed,
                    projection, allowedRoles, userRoles, roleResult,
                    userProjection, allowedFields, merged, ret, filterCtx, filtered >>

\* the rest of getProjection after a miss
ComputeAndStore(c) ==
    /\ callers[c].pc = "miss"
    /\ LET call == computeAndStore(policies, precomputed, callers[c].roles)
       IN /\ callers' = [callers EXCEPT ![c] =
                 [ pc |-> "done", roles |-> callers[c].roles,
                   isNull |-> call.isNull, value |-> call.value,
                   computed |-> call.computed ]]
          /\ precomputed' = call.precomputed
          /\ computeLog' = IF call.computed
                           THEN Append(computeLog, callers[c].roles)
                           ELSE computeLog
    /\ callRoles' = callers[c].roles
    /\ lastOp' = "computeAndStore"
    /\ UNCHANGED << got, calls, lifecycleVars, pipelineVars,
                    schema, strict, regStatus, errorField, policies,
                    projection, allowedRoles, userRoles, roleResult,
                    userProjection, allowedFields, merged, ret, filterCtx, filtered >>

NextConcurrent ==
    \/ RegisterOnce
    \/ \E c \in Callers, roles \in RegistryRoleLists : Lookup(c, roles)
    \/ \E c \in Callers : ComputeAndStore(c)

SpecConcurrent == InitConcurrent /\ [][NextConcurrent]_vars

(***************************************************************************)
(* SpecNested: the record filter (toJSON / toObject transform, and          *)
(* filterLeanDocument) on records of models with nested paths. The value   *)
(* of a nested object is kept as the object with its keys.                 *)
(***************************************************************************)
\* schemas with a nested object x: children with different roles, a child
\* with a condition, a container with a rule of its own over a child with a
\* condition, and a visible container over a hidden child
NestedSchemas ==
    { << Declare("name", Shield(<< "public" >>, "none", "none"), << >>),
         Declare("x", NoShield,
                 << Declare("a", Shield(<< "admin" >>, "none", "none"), << >>),
                    Declare("b", Shield(<< "user" >>, "none", "none"), << >>) >>) >>,
      << Declare("name", Shield(<< "public" >>, "none", "none"), << >>),
         Declare("x", NoShield,
                 << Declare("b", Shield(<< "user" >>, "owner", "none"), << >>) >>) >>,
      << Declare("x", Shield(<< "user" >>, "owner", "none"),
                 << Declare("b", Shield(<< "user" >>, "none", "mask"), << >>) >>) >>,
      << Declare("x", Shield(<< "admin", "user" >>, "none", "none"),
                 << Declare("a", Shield(<< >>, "none", "none"), << >>),
                    Declare("b", Shield(<< "user" >>, "none", "none"), << >>) >>) >> }

\* records as fetched without a projection or with one: _id and ownerId, then
\* name and the nested object x with some of its keys
NestedRecords ==
    { << Field("_id", JSString("id1")), Field("ownerId", JSString("u1")) >>
          \o n \o x :
      n \in { << >>, << Field("name", JSString("Ann")) >> },
      x \in { << >>, << Field("x", JSObject(<< "a", "b" >>)) >>,
              << Field("x", JSObject(<< "a" >>)) >>,
              << Field("x", JSObject(<< "b" >>)) >> } }

InitNested ==
    /\ policies \in { [ has |-> TRUE, policy |-> parseSchemaShield(s).policy ] :
                        s \in NestedSchemas }
    /\ ret \in NestedRecords
    /\ filterCtx \in { [ roles |-> r, userId |-> u ] :
                         r \in CallerRoleLists, u \in UserIds }
    /\ filtered = [ done |-> FALSE, threw |-> FALSE, result |-> << >> ]
    /\ callRoles = << >>
    /\ lastOp = "none"
    /\ IdleCompile /\ IdleRoleCheck /\ IdleMerge
    /\ IdleRegistry /\ IdleLifecycle /\ IdlePipeline

NextNested == ApplyPostFiltering

SpecNested == InitNested /\ [][NextNested]_vars

(***************************************************************************)
(* SpecRefine: the registry along any sequence of register, getProjection  *)
(* and clear calls; a model may be registered again with another policy,   *)
(* and a role name may hold the ',' that joins the roles of a cache key.   *)
(***************************************************************************)
RefineRoles == { "admin", "user", "admin,user" }

RefineRoleLists == SeqsUpTo(RefineRoles, MaxRoles)

\* PolicyRegistry.register(modelName, policy) with the policy compiled from
\* the schema s, for a model that may be registered already
RegisterSchema(s) ==
    /\ schema' = s
    /\ LET policy == parseSchemaShield(s).policy
           roles == AllRolesInOrder(policy)
       IN /\ policies' = [ has |-> TRUE, policy |-> policy ]
          /\ precomputed' = precomputeProjections(policy)
          /\ computeLog' = [ i \in 1..Len(roles) |-> << roles[i] >> ]
    /\ calls' = 0
    /\ lastOp' = "register"
    /\ UNCHANGED << got, callers, lifecycleVars, pipelineVars,
                    strict, regStatus, errorField,
                    callRoles, projection, allowedRoles, userRoles, roleResult,
                    userProjection, allowedFields, merged, ret, filterCtx, filtered >>

NextRefine ==
    \/ \E s \in RegistrySchemas : RegisterSchema(s)
    \/ \E roles \in RefineRoleLists : GetProjection(roles)
    \/ Clear

SpecRefine == InitRegistry /\ [][NextRefine]_vars

(***************************************************************************)
(* SpecLifecycle: queries and aggregations on a defined model, with        *)
(* clearShield() called at any time. The hooks of the schema and their     *)
(* processedModels set outlive clearShield.                                *)
(***************************************************************************)
\* clearShield(): PolicyRegistry.clear(); the patch flags it resets guard
\* only the patching of the prototypes
ClearShield ==
    /\ modelDefined
    /\ policies' = NoPolicy
    /\ precomputed' = NoPrecomputed
    /\ lastOp' = "clearShield"
    /\ UNCHANGED << registryVars, lifecycleVars, pipelineVars,
                    schema, strict, regStatus, errorField,
                    callRoles, projection, allowedRoles, userRoles, roleResult,
                    userProjection, allowedFields, merged, ret, filterCtx, filtered >>

NextLifecycle ==
    \/ NextQuery
    \/ ClearShield

SpecLifecycle == InitQuery /\ [][NextLifecycle]_vars

(***************************************************************************)
(* SpecAggregate: aggregations with caller-authored $project stages; an    *)
(* aggregate may be executed again, and its pre hook then runs on the      *)
(* pipeline the first execution has left.                                  *)
(***************************************************************************)
ProjectFields == { "_id", "name", "secret" }

ProjectValues == { JSNumber(0), JSNumber(1), JSString("$name") }

\* the caller's $project stages: object literals of up to MaxStage keys
ProjectBodies ==
    { p \in SeqsUpTo({ [field |-> f, value |-> v] :
                         f \in ProjectFields, v \in ProjectValues }, MaxStage) :
        \A i, j \in 1..Len(p) : i # j => p[i].field # p[j].field }

MergePipelines ==
    AggregatePipelines
        \cup { << Stage("$project", b) >> : b \in ProjectBodies }
        \cup { << Stage("$match", << >>), Stage("$project", b),
                  Stage("$group", << >>) >> : b \in ProjectBodies }
        \cup { << Stage("$project", b),
                  Stage("$project", << [field |-> "secret", value |-> JSNumber(1)] >>) >> :
               b \in ProjectBodies }

\* aggregate.exec() on an aggregate that has been executed before: the pre
\* hook runs again, on the pipeline as the earlier execution left it
ExecuteAgain ==
    /\ modelDefined
    /\ query.op = "aggregate"
    /\ query.phase = "done"
    /\ \E reg \in { LazyRegistration } :
          /\ regStatus' = reg.status
          /\ errorField' = reg.errorField
          /\ policies' = reg.policies
          /\ precomputed' = reg.precomputed
          /\ processedModels' = reg.processed
    /\ \E after \in { preAggregate(RegistrationThrew', policies',
                                     [query EXCEPT !.given = pipeline]) } :
          /\ query' = [after.query EXCEPT !.given = query.given]
          /\ pipeline' = after.pipeline
    /\ lastOp' = "aggregate again"
    /\ UNCHANGED << registryVars, insertIndex, modelDefined,
                    schema, strict,
                    callRoles, projection, allowedRoles, userRoles, roleResult,
                    userProjection, allowedFields, merged, ret, filterCtx, filtered >>

\* Model.aggregate(given).role(...).exec(): the specification follows one
\* Aggregate object from its first execution on
FirstExecution(roleOption, bypass, given) ==
    /\ query.op = "none"
    /\ PreAggregate(roleOption, bypass, given)

NextAggregate ==
    \/ DefineModel
    \/ \E roleOption \in RoleOptions, bypass \in BOOLEAN,
          given \in MergePipelines :
           FirstExecution(roleOption, bypass, given)
    \/ ExecuteAgain

SpecAggregate == InitQuery /\ [][NextAggregate]_vars

(***************************************************************************)
(* Properties.                                                             *)
(***************************************************************************)

\* C1: the role check denies every caller when the rule's roles are [],
\* allows every caller (also one without roles) when they contain 'public',
\* and for roles without a reserved token allows exactly the callers that
\* share a role with the rule; checkRoleAccess and checkRoleAccessFast agree.
RoleCheckDecides ==
    roleResult.done =>
        LET shared == Range(allowedRoles) \cap Range(userRoles) # {}
            reserved == "public" \in Range(allowedRoles) \/ "*" \in Range(allowedRoles)
        IN /\ (allowedRoles = << >> => ~ roleResult.array /\ ~ roleResult.fast)
           /\ ("public" \in Range(allowedRoles) => roleResult.array /\ roleResult.fast)
           /\ (~ reserved => (roleResult.array <=> shared) /\ (roleResult.fast <=> shared))

\* a ['public'] rule has been checked against a caller without roles
RoleCheckWitness ==
    /\ roleResult.done
    /\ allowedRoles = << "public" >>
    /\ userRoles = << >>
    /\ roleResult.array /\ roleResult.fast

\* C2: every computed projection has the identity field '_id' in its
\* selectFields, whatever the policy and the caller's roles.
IdentityAlwaysSelected ==
    /\ lastOp \in { "computeProjection", "calculateAllowedFields" }
           => "_id" \in Range(projection.selectFields)
    /\ precomputed.has =>
           \A role \in precomputed.allRoles :
               "_id" \in Range(precomputed.singleRoleProjections[role].selectFields)

\* C3: no element of a computed selectFields is a strict dot-prefix of
\* another element.
NoPathCollision ==
    LET Clean(fields) ==
            \A i, j \in 1..Len(fields) :
                ~ (/\ Len(fields[j]) > Len(fields[i]) + 1
                   /\ SubSeq(fields[j], 1, Len(fields[i]) + 1) = fields[i] \o ".")
    IN /\ Clean(projection.selectFields)
       /\ precomputed.has =>
              \A role \in precomputed.allRoles :
                  Clean(precomputed.singleRoleProjections[role].selectFields)

\* a projection was computed for roles that are allowed both x and x.a, and
\* only x.a was kept
NoPathCollisionWitness ==
    /\ lastOp = "computeProjection"
    /\ policies.has
    /\ PolicyHas(policies.policy, "x") /\ PolicyHas(policies.policy, "x.a")
    /\ checkRoleAccess(PolicyGet(policies.policy, "x").roles, callRoles)
    /\ checkRoleAccess(PolicyGet(policies.policy, "x.a").roles, callRoles)
    /\ "x.a" \in Range(projection.selectFields)
    /\ "x" \notin Range(projection.selectFields)

\* C4: selectFields is exactly '_id' plus every role-allowed rule path other
\* than '__v' that has no role-allowed descendant, and conditionFields is
\* exactly the role-allowed rule paths (other than '__v') with a condition.
ProjectionIsExact ==
    lastOp \in { "computeProjection", "calculateAllowedFields" } =>
        LET policy == policies.policy
            RoleAllowed(roles) ==
                /\ roles # << >>
                /\ \/ "*" \in Range(roles)
                   \/ "public" \in Range(roles)
                   \/ Range(roles) \cap Range(callRoles) # {}
            allowed == { i \in 1..Len(policy) :
                           /\ policy[i].field # "__v"
                           /\ RoleAllowed(policy[i].config.roles) }
            leaves == { policy[i].field : i \in
                         { k \in allowed : ~ \E j \in allowed :
                               startsWith(policy[j].field, policy[k].field \o ".") } }
        IN /\ Range(projection.selectFields) = { "_id" } \cup leaves
           /\ projection.conditionFields =
                  { policy[i].field : i \in
                      { k \in allowed : policy[k].config.condition # "none" } }

\* C5: in the merged $project stage every key whose value is a plain
\* inclusion (1 or true) is an allowed field or '_id', and a key that is
\* neither allowed nor '_id' is there only with the computed expression the
\* caller wrote for it.
MergeNeverGrants ==
    merged.done =>
        \A i \in 1..Len(merged.stage) :
            LET field == merged.stage[i].field
                value == merged.stage[i].value
                permitted == field \in Range(allowedFields) \/ field = "_id"
                plain == \/ (value.type = "number" /\ value.num = 1)
                         \/ (value.type = "boolean" /\ value.bool)
                expression ==
                    \/ value.type = "string" /\ Len(value.str) > 0
                           /\ SubSeq(value.str, 1, 1) = "$"
                    \/ value.type = "object" /\ \E k \in 1..Len(value.keys) :
                           SubSeq(value.keys[k], 1, 1) = "$"
            IN /\ plain => permitted
               /\ ~ permitted =>
                      /\ expression
                      /\ \E j \in 1..Len(userProjection) :
                             userProjection[j] = merged.stage[i]

\* an inclusion stage asked for the restricted ssn plainly and for a computed
\* total: ssn was dropped, the expression was kept, name was force-included
MergeNeverGrantsWitness ==
    /\ merged.done
    /\ allowedFields = << "_id", "name" >>
    /\ userProjection = << [field |-> "ssn", value |-> JSNumber(1)],
                           [field |-> "total", value |-> JSString("$ssn")] >>
    /\ ~ ObjHas(merged.stage, "ssn")
    /\ ObjHas(merged.stage, "total")
    /\ ObjHas(merged.stage, "name")

\* C6 as stated: a role-allowed field whose condition throws, returns a
\* promise or returns a non-boolean value is left out of the output, nothing
\* is thrown to the caller and the record's other fields are returned.
ConditionFailureExcludes ==
    (filtered.done /\ policies.has) =>
        \A i \in 1..Len(ret) :
            LET field == ret[i].field
                config == PolicyGet(policies.policy, field)
            IN (/\ PolicyHas(policies.policy, field)
                /\ checkRoleAccess(config.roles, filterCtx.roles)
                /\ config.condition \in { "throws", "async", "truthy", "falsy" })
               => /\ ~ filtered.threw
                  /\ ~ ObjHas(filtered.result, field)
                  /\ ObjHas(filtered.result, "_id")
                  /\ \A j \in 1..Len(ret) :
                         (/\ j # i
                          /\ PolicyHas(policies.policy, ret[j].field)
                          /\ PolicyGet(policies.policy, ret[j].field).condition = "none"
                          /\ checkRoleAccess(
                                 PolicyGet(policies.policy, ret[j].field).roles,
                                 filterCtx.roles))
                         => ObjHas(filtered.result, ret[j].field)

\* C6 amended: a role-allowed field whose condition throws, returns a promise
\* or returns a falsy value is left out of the output, nothing is thrown to
\* the caller and the record's other fields are returned; a truthy result
\* that is not a boolean (and not a promise) lets the field through.
ConditionFailureExcludesFalsy ==
    (filtered.done /\ policies.has) =>
        \A i \in 1..Len(ret) :
            LET field == ret[i].field
                config == PolicyGet(policies.policy, field)
            IN (/\ PolicyHas(policies.policy, field)
                /\ checkRoleAccess(config.roles, filterCtx.roles))
               => /\ config.condition \in { "throws", "async", "falsy" }
                     => /\ ~ filtered.threw
                        /\ ~ ObjHas(filtered.result, field)
                        /\ ObjHas(filtered.result, "_id")
                        /\ \A j \in 1..Len(ret) :
                               (/\ j # i
                                /\ PolicyHas(policies.policy, ret[j].field)
                                /\ PolicyGet(policies.policy, ret[j].field).condition = "none"
                                /\ checkRoleAccess(
                                       PolicyGet(policies.policy, ret[j].field).roles,
                                       filterCtx.roles))
                               => ObjHas(filtered.result, ret[j].field)
                  /\ config.condition = "truthy"
                     => ~ filtered.threw /\ ObjHas(filtered.result, field)

\* the condition of data threw for a caller holding its role: data is absent,
\* name is returned
ConditionFailureWitness ==
    /\ filtered.done /\ ~ filtered.threw
    /\ policies.has
    /\ PolicyHas(policies.policy, "data")
    /\ PolicyGet(policies.policy, "data").condition = "throws"
    /\ checkRoleAccess(PolicyGet(policies.policy, "data").roles, filterCtx.roles)
    /\ ObjHas(ret, "data") /\ ObjHas(ret, "name")
    /\ ~ ObjHas(filtered.result, "data")
    /\ ObjHas(filtered.result, "name")

SynthesisIsUnion ==
    regStatus = "registered" =>
        LET policy == policies.policy
            declared == parseSchemaPathsRecursive(schema, "", EmptyParse).policy
            IsBelow(child, parent) ==
                /\ Len(child) > Len(parent) + 1
                /\ SubSeq(child, 1, Len(parent) + 1) = parent \o "."
            AncestorsOf(path) ==
                { SubSeq(path, 1, d - 1) :
                    d \in { k \in 1..Len(path) : SubSeq(path, k, k) = "." } }
            ancestors == UNION { AncestorsOf(policy[i].field) : i \in 1..Len(policy) }
        IN /\ \A a \in ancestors :
                  ~ PolicyHas(declared, a) =>
                      /\ PolicyHas(policy, a)
                      /\ PolicyGet(policy, a).synthesized
                      /\ PolicyGet(policy, a).condition = "none"
                      /\ PolicyGet(policy, a).transform = "none"
                      /\ Range(PolicyGet(policy, a).roles) =
                             UNION { Range(policy[i].config.roles) :
                                       i \in { k \in 1..Len(policy) :
                                                 IsBelow(policy[k].field, a) } }
                      /\ \A m, n \in 1..Len(PolicyGet(policy, a).roles) :
                             m # n => PolicyGet(policy, a).roles[m]
                                          # PolicyGet(policy, a).roles[n]
           /\ (/\ PolicyKeys(declared) = << "x.a", "x.b" >>
               /\ PolicyGet(declared, "x.a").roles = << "admin" >>
               /\ PolicyGet(declared, "x.b").roles = << "user" >>)
              => PolicyGet(policy, "x").roles = << "admin", "user" >>

\* x has no rule, x.a has the explicit rule [admin] and x.a.c the rule [user]:
\* the rule synthesized for x holds both roles
SynthesisIsUnionWitness ==
    /\ regStatus = "registered"
    /\ PolicyHas(policies.policy, "x") /\ PolicyHas(policies.policy, "x.a")
    /\ PolicyHas(policies.policy, "x.a.c")
    /\ PolicyGet(policies.policy, "x").synthesized
    /\ ~ PolicyGet(policies.policy, "x.a").synthesized
    /\ PolicyGet(policies.policy, "x.a").roles = << "admin" >>
    /\ PolicyGet(policies.policy, "x.a.c").roles = << "user" >>
    /\ PolicyGet(policies.policy, "x").roles = << "admin", "user" >>

\* C9: a path with an explicit rule keeps exactly its declared roles,
\* condition and transform after compilation and is not marked synthesized,
\* whatever rules its descendants carry.
ExplicitRuleUntouched ==
    regStatus = "registered" =>
        LET declared == parseSchemaPathsRecursive(schema, "", EmptyParse).policy
        IN \A i \in 1..Len(declared) :
               /\ PolicyHas(policies.policy, declared[i].field)
               /\ PolicyGet(policies.policy, declared[i].field) = declared[i].config
               /\ ~ PolicyGet(policies.policy, declared[i].field).synthesized

\* x declares [user] with a condition and a transform, its child x.a declares
\* [admin]: x still carries its own rule
ExplicitRuleUntouchedWitness ==
    /\ regStatus = "registered"
    /\ PolicyHas(policies.policy, "x") /\ PolicyHas(policies.policy, "x.a")
    /\ PolicyGet(policies.policy, "x.a").roles = << "admin" >>
    /\ PolicyGet(policies.policy, "x") =
           [ roles |-> << "user" >>, condition |-> "owner",
             transform |-> "mask", synthesized |-> FALSE ]

\* C10: in strict mode compilation succeeds if and only if every declared
\* path other than '_id' and the internal '_' fields has a rule of its own,
\* an ancestor with a rule or a descendant with a rule.
StrictCompleteness ==
    (strict /\ regStatus \in { "registered", "skipped", "shieldError" }) =>
        LET parsed == parseSchemaShield(schema)
            rules == { parsed.policy[i].field : i \in 1..Len(parsed.policy) }
            IsBelow(child, parent) ==
                /\ Len(child) > Len(parent) + 1
                /\ SubSeq(child, 1, Len(parent) + 1) = parent \o "."
            Complete(field) ==
                \/ field \in rules
                \/ \E r \in rules : IsBelow(field, r)
                \/ \E r \in rules : IsBelow(r, field)
            checked == { f \in Range(parsed.schemaFields) : SubSeq(f, 1, 1) # "_" }
        IN regStatus # "shieldError" <=> \A f \in checked : Complete(f)

\* C11: in strict mode a declared leaf field without a rule makes registration
\* fail with a ShieldError even when a sibling under the same container
\* carries a rule: the rule synthesized for the container does not cover the
\* unshielded leaf.
UnshieldedLeafBesideRuleFails ==
    (strict /\ regStatus \in { "registered", "skipped", "shieldError" }) =>
        LET parsed == parseSchemaPathsRecursive(schema, "", EmptyParse)
            declared == Range(parsed.schemaFields)
            ParentOf(f) == join(SubSeq(split(f), 1, Len(split(f)) - 1))
            IsLeaf(f) == ~ \E g \in declared : startsWith(g, f \o ".")
            HasExplicitAncestor(f) ==
                \E i \in 1..Len(parsed.policy) :
                    startsWith(f, parsed.policy[i].field \o ".")
            unshieldedLeaf ==
                { f \in declared :
                    /\ SubSeq(f, 1, 1) # "_"
                    /\ IsLeaf(f)
                    /\ ~ PolicyHas(parsed.policy, f)
                    /\ ~ HasExplicitAncestor(f)
                    /\ \E g \in declared :
                           /\ g # f
                           /\ ParentOf(g) = ParentOf(f)
                           /\ ParentOf(f) # ""
                           /\ PolicyHas(parsed.policy, g) }
        IN unshieldedLeaf # {} => regStatus = "shieldError"

\* C12: in strict mode a schema that declares at least one field and carries
\* no rule on any field fails with a ShieldError.
NoRuleAtAllFails ==
    (strict /\ regStatus \in { "registered", "skipped", "shieldError" }) =>
        LET parsed == parseSchemaPathsRecursive(schema, "", EmptyParse)
        IN (/\ Len(parsed.policy) = 0
            /\ \E f \in Range(parsed.schemaFields) : SubSeq(f, 1, 1) # "_")
           => regStatus = "shieldError"

\* C13: a strict validation failure names the first offending field in
\* declaration order, reports no later field, and leaves the model
\* unregistered: no policy and no precomputed projection is stored.
FailFastFirstField ==
    regStatus = "shieldError" =>
        LET parsed == parseSchemaShield(schema)
            fields == parsed.schemaFields
            rules == { parsed.policy[i].field : i \in 1..Len(parsed.policy) }
            IsBelow(child, parent) ==
                /\ Len(child) > Len(parent) + 1
                /\ SubSeq(child, 1, Len(parent) + 1) = parent \o "."
            Offending(f) ==
                /\ SubSeq(f, 1, 1) # "_"
                /\ f \notin rules
                /\ ~ \E r \in rules : IsBelow(f, r)
                /\ ~ \E r \in rules : IsBelow(r, f)
        IN /\ \E i \in 1..Len(fields) :
                  /\ fields[i] = errorField
                  /\ Offending(fields[i])
                  /\ \A j \in 1..(i - 1) : ~ Offending(fields[j])
           /\ policies = NoPolicy
           /\ precomputed = NoPrecomputed

\* name has a rule, x and x.b have none: both are offending and the error
\* names x, the first of them
FailFastWitness ==
    /\ regStatus = "shieldError"
    /\ lastOp = "register"
    /\ parseSchemaShield(schema).schemaFields = << "name", "x", "x.b" >>
    /\ PolicyKeys(parseSchemaShield(schema).policy) = << "name" >>
    /\ errorField = "x"
    /\ ~ policies.has

\* C14: a rule whose roles is not a list aborts registration with a
\* structured error that reaches the host and names the offending field; it
\* is never swallowed.
MalformedRuleIsFatal ==
    (/\ regStatus # "defined"
     /\ parseSchemaPathsRecursive(schema, "", EmptyParse).threw)
    => (regStatus = "shieldError" /\ errorField = "name")

\* C17: the record filter puts a field that has no rule in the policy into the
\* output only if it is the identity field; every other rule-less field of
\* the fetched record, the version key '__v' included, is left out.
RuleLessOnlyIdentity ==
    (filtered.done /\ policies.has) =>
        /\ \A i \in 1..Len(filtered.result) :
               ~ PolicyHas(policies.policy, filtered.result[i].field)
                   => filtered.result[i].field = "_id"
        /\ (ObjHas(ret, "_id") /\ ~ PolicyHas(policies.policy, "_id"))
               => (ObjHas(filtered.result, "_id")
                   /\ ObjGet(filtered.result, "_id") = ObjGet(ret, "_id"))

\* C20: findSafeProjectInsertIndex skips must-be-first stages, $match stages
\* and a $sort that immediately follows a $match, and stops at the first
\* stage outside these categories; the index lies between 0 and the pipeline
\* length, is 0 for the empty pipeline, is 3 for [must-be-first, $match,
\* $match], and lies behind a must-be-first stage at the head of the pipeline.
SafeInsertIndex ==
    insertIndex.done =>
        LET n == insertIndex.index
            MustBeFirst(k) ==
                k \in { "$geoNear", "$collStats", "$indexStats", "$listSessions",
                        "$currentOp", "$planCacheStats" }
            Skipped(i) ==
                \/ MustBeFirst(pipeline[i].key)
                \/ pipeline[i].key = "$match"
                \/ (pipeline[i].key = "$sort" /\ i > 1 /\ pipeline[i - 1].key = "$match")
        IN /\ n \in 0..Len(pipeline)
           /\ \A i \in 1..n : Skipped(i)
           /\ n < Len(pipeline) => ~ Skipped(n + 1)
           /\ pipeline = << >> => n = 0
           /\ (/\ Len(pipeline) = 3
               /\ MustBeFirst(pipeline[1].key)
               /\ pipeline[2].key = "$match"
               /\ pipeline[3].key = "$match") => n = 3
           /\ (pipeline # << >> /\ MustBeFirst(pipeline[1].key)) => n >= 1

\* [$geoNear, $match, $match] gives 3
SafeInsertIndexWitness ==
    /\ insertIndex.done
    /\ pipeline = << Stage("$geoNear", << >>), Stage("$match", << >>),
                     Stage("$match", << >>) >>
    /\ insertIndex.index = 3

\* C16: requesting the projection of a type that is not registered (never
\* registered, or registered before a clear) does not fail and returns the
\* minimal projection: selectFields holds only the identity field and
\* conditionFields is empty.
UnregisteredGivesMinimal ==
    (lastOp = "getProjection" /\ ~ policies.has) =>
        /\ got.done
        /\ ~ got.isNull
        /\ got.value.selectFields = << "_id" >>
        /\ got.value.conditionFields = {}

\* C18: a getProjection call that repeats the roles of the call before it
\* returns an equal result and computes nothing; between a register and the
\* next clear computeProjection runs at most once for each role combination,
\* and for a single role of the policy or a reserved token only at register.
GetProjectionIsMemoized ==
    [][ LET SameCombination(a, b) ==
                /\ Len(a) = Len(b)
                /\ \A r \in Range(a) \cup Range(b) :
                       Cardinality({ i \in 1..Len(a) : a[i] = r })
                           = Cardinality({ i \in 1..Len(b) : b[i] = r })
        IN /\ (/\ lastOp = "getProjection" /\ lastOp' = "getProjection"
               /\ policies.has
               /\ SameCombination(callRoles, callRoles'))
              => (got' = got /\ computeLog' = computeLog)
           /\ \A i, j \in 1..Len(computeLog') :
                  i # j => ~ SameCombination(computeLog'[i], computeLog'[j]) ]_vars

\* getProjection ran for [admin, user] and then for [user, admin]: the
\* second call is served from the multi-role cache
GetProjectionIsMemoizedWitness ==
    /\ lastOp = "getProjection"
    /\ policies.has
    /\ calls = 2
    /\ callRoles = << "user", "admin" >>
    /\ computeLog[Len(computeLog)] = << "admin", "user" >>
    /\ Len(precomputed.multiRoleCache) = 1
    /\ precomputed.multiRoleCache[1].key = "admin,user"
    /\ got.value = precomputed.multiRoleCache[1].projection

\* C15: a find-type query or an aggregation on a registered model without
\* roles and without bypass raises a ShieldError naming the operation before
\* any projection, option or pipeline stage is applied; with bypassShield()
\* no projection, no pipeline stage and no role context is applied.
MissingRoleRaises ==
    (query.phase \in { "executing", "done", "failed" } /\ policies.has) =>
        LET untouched ==
                /\ ~ query.selected
                /\ ~ query.optionsSet
                /\ ~ query.contextAttached
                /\ pipeline = query.given
        IN /\ (~ query.rolesSet /\ ~ query.bypassed) =>
                  /\ query.phase = "failed"
                  /\ query.error = IF query.op = "aggregate"
                                   THEN "missingRoleOnAggregate" ELSE "missingRole"
                  /\ query.errorOp = query.op
                  /\ untouched
           /\ query.bypassed => (query.error = "none" /\ untouched)

\* findOne() without .role() on a registered model has failed with
\* ShieldError.missingRole
MissingRoleWitness ==
    /\ policies.has
    /\ query.op = "findOne"
    /\ ~ query.rolesSet /\ ~ query.bypassed
    /\ query.phase = "failed"
    /\ query.error = "missingRole"

\* C19: compilation, strict validation and the single-role projections all
\* happen when the model is defined, before any query runs; a strict
\* validation failure is raised at model definition, never by a query.
CompiledAtDefinition ==
    /\ modelDefined => regStatus # "defined"
    /\ query.error # "missingShieldConfig"

\* C21: the merged stage holds every allowed field as a key; when the caller's
\* stage is in exclusion mode the merged stage is exactly the allowed fields
\* with value 1, except that '_id' is excluded in it whenever the caller
\* excluded '_id' with 0 or with false.
MergeCoversAllowed ==
    merged.done =>
        LET callerExcludesId ==
                \E i \in 1..Len(userProjection) :
                    /\ userProjection[i].field = "_id"
                    /\ \/ (userProjection[i].value.type = "number"
                           /\ userProjection[i].value.num = 0)
                       \/ (userProjection[i].value.type = "boolean"
                           /\ ~ userProjection[i].value.bool)
            keys == { merged.stage[i].field : i \in 1..Len(merged.stage) }
            Excluded(v) == \/ (v.type = "number" /\ v.num = 0)
                           \/ (v.type = "boolean" /\ ~ v.bool)
        IN /\ Range(allowedFields) \subseteq keys
           /\ detectProjectionMode(userProjection) = "exclusion" =>
                  /\ keys = Range(allowedFields)
                              \cup (IF callerExcludesId THEN { "_id" } ELSE {})
                  /\ \A i \in 1..Len(merged.stage) :
                         IF merged.stage[i].field = "_id" /\ callerExcludesId
                         THEN Excluded(merged.stage[i].value)
                         ELSE merged.stage[i].value = JSNumber(1)

\* C22: a rule whose roles contain '*' and not 'public' lets in exactly the
\* callers that hold at least one role: a caller with an empty role list is
\* refused by it, while a ['public'] rule lets that caller in.
WildcardNeedsARole ==
    roleResult.done =>
        /\ ("*" \in Range(allowedRoles) /\ "public" \notin Range(allowedRoles))
               => /\ roleResult.array <=> userRoles # << >>
                  /\ roleResult.fast <=> userRoles # << >>
        /\ (allowedRoles = << "public" >> /\ userRoles = << >>)
               => (roleResult.array /\ roleResult.fast)

\* C23: two callers that ask for the same role combination of the registered
\* model, in whatever order their steps interleave, obtain equal projections,
\* which is the projection multiRoleCache holds for the combination once one
\* of them has computed it; the lookups leave the policy and the single-role
\* projections as register stored them.
ConcurrentLookupsAgree ==
    policies.has =>
        LET SameCombination(a, b) ==
                /\ Len(a) = Len(b)
                /\ \A r \in Range(a) \cup Range(b) :
                       Cardinality({ i \in 1..Len(a) : a[i] = r })
                           = Cardinality({ i \in 1..Len(b) : b[i] = r })
            cache == precomputed.multiRoleCache
        IN /\ \A c, d \in Callers :
                  (/\ callers[c].pc = "done" /\ callers[d].pc = "done"
                   /\ SameCombination(callers[c].roles, callers[d].roles))
                  => /\ ~ callers[c].isNull
                     /\ callers[c].value = callers[d].value
           /\ \A c \in Callers :
                  (callers[c].pc = "done" /\ callers[c].computed)
                  => \E i \in 1..Len(cache) :
                         /\ cache[i].projection = callers[c].value
                         /\ \A j \in 1..Len(cache) :
                                cache[j].key = cache[i].key => j = i
                         /\ \E k \in 1..Len(computeLog) :
                                /\ SameCombination(computeLog[k], callers[c].roles)
                                /\ cache[i].projection =
                                       calculateAllowedFields(policies, computeLog[k])
           /\ policies.policy = parseSchemaShield(schema).policy
           /\ precomputed.singleRoleProjections =
                  [ role \in AllRolesOf(policies.policy) |->
                      calculateAllowedFields(policies, << role >>) ]

\* both callers missed the cache for the combination of admin and user, asked
\* for in the two orders, and both computed it: two computations, one cache
\* entry, equal results
ConcurrentLookupsWitness ==
    /\ policies.has
    /\ callers[1].pc = "done" /\ callers[1].computed
    /\ callers[2].pc = "done" /\ callers[2].computed
    /\ callers[1].roles = << "admin", "user" >>
    /\ callers[2].roles = << "user", "admin" >>
    /\ Len(precomputed.multiRoleCache) = 1
    /\ callers[1].value = callers[2].value
    /\ Range(callers[1].value.selectFields) = { "_id", "name", "x.b" }

\* C24: when the transform of a field that passed its role check and its
\* condition throws, the field is left out of the output (the warning the
\* code prints is not part of the state).
TransformFailureExcludes ==
    (filtered.done /\ policies.has) =>
        \A i \in 1..Len(ret) :
            LET field == ret[i].field
                config == PolicyGet(policies.policy, field)
                ctx == [ roles |-> filterCtx.roles, userId |-> filterCtx.userId,
                         document |-> ret, field |-> field ]
                result == CallCondition(config.condition, ctx)
                passed == \/ config.condition = "none"
                          \/ /\ ~ result.threw
                             /\ result.value.type # "promise"
                             /\ Truthy(result.value)
            IN (/\ PolicyHas(policies.policy, field)
                /\ checkRoleAccess(config.roles, filterCtx.roles)
                /\ passed
                /\ config.transform = "throws")
               => /\ ~ filtered.threw
                  /\ ~ ObjHas(filtered.result, field)

\* C25: a path of the policy whose rule carries a condition, top-level or
\* nested, is in the record filter's output only if its condition, called for
\* that record and caller, returned a true (truthy, not pending) result.
ConditionsEnforcedAtAnyDepth ==
    (filtered.done /\ policies.has) =>
        LET PresentIn(obj, path) ==
                LET parts == split(path)
                IN IF Len(parts) = 1 THEN ObjHas(obj, path)
                   ELSE /\ ObjHas(obj, parts[1])
                        /\ ObjGet(obj, parts[1]).type = "object"
                        /\ \E k \in 1..Len(ObjGet(obj, parts[1]).keys) :
                               ObjGet(obj, parts[1]).keys[k] = parts[2]
        IN \A i \in 1..Len(policies.policy) :
               LET path == policies.policy[i].field
                   config == policies.policy[i].config
                   ctx == [ roles |-> filterCtx.roles, userId |-> filterCtx.userId,
                            document |-> ret, field |-> path ]
                   result == CallCondition(config.condition, ctx)
               IN (config.condition # "none" /\ PresentIn(filtered.result, path))
                  => /\ ~ result.threw
                     /\ result.value.type # "promise"
                     /\ Truthy(result.value)

\* C30: the record filter applied to a complete record of a registered model
\* has in its output no path of the policy whose rule denies the caller's
\* roles, top-level or nested under a container the caller may see.
NestedDeniedAbsent ==
    (filtered.done /\ policies.has) =>
        LET PresentIn(obj, path) ==
                LET parts == split(path)
                IN IF Len(parts) = 1 THEN ObjHas(obj, path)
                   ELSE /\ ObjHas(obj, parts[1])
                        /\ ObjGet(obj, parts[1]).type = "object"
                        /\ \E k \in 1..Len(ObjGet(obj, parts[1]).keys) :
                               ObjGet(obj, parts[1]).keys[k] = parts[2]
            Denied(roles) ==
                \/ roles = << >>
                \/ /\ "*" \notin Range(roles)
                   /\ "public" \notin Range(roles)
                   /\ Range(roles) \cap Range(filterCtx.roles) = {}
            complete == \A i \in 1..Len(policies.policy) :
                            PresentIn(ret, policies.policy[i].field)
        IN complete =>
               \A i \in 1..Len(policies.policy) :
                   Denied(policies.policy[i].config.roles)
                       => ~ PresentIn(filtered.result, policies.policy[i].field)

\* C26: no entry of a computed selectFields is equal to, or an ancestor of, a
\* path of the policy whose own rule denies the caller's roles; a path with
\* roles [] is never fetched through a selected ancestor. The identity field,
\* which every projection selects, and the paths below it are left aside.
NoDeniedPathFetched ==
    (lastOp \in { "computeProjection", "calculateAllowedFields" } /\ policies.has) =>
        LET policy == policies.policy
            Denied(roles) ==
                \/ roles = << >>
                \/ /\ "*" \notin Range(roles)
                   /\ "public" \notin Range(roles)
                   /\ Range(roles) \cap Range(callRoles) = {}
            Covers(selected, path) ==
                \/ selected = path
                \/ /\ Len(path) > Len(selected) + 1
                   /\ SubSeq(path, 1, Len(selected) + 1) = selected \o "."
        IN \A i \in 1..Len(policy) :
               (/\ Denied(policy[i].config.roles)
                /\ policy[i].field # "_id"
                /\ ~ startsWith(policy[i].field, "_id.")) =>
                   \A k \in 1..Len(projection.selectFields) :
                       ~ Covers(projection.selectFields[k], policy[i].field)

\* C27: after any sequence of register, getProjection and clear calls, the
\* projection getProjection returns for a registered model and a role list is
\* the one calculateAllowedFields gives for the policy registered now and that
\* role list.
GetProjectionRefinesCalculate ==
    (lastOp = "getProjection" /\ policies.has) =>
        /\ got.done
        /\ ~ got.isNull
        /\ got.value = calculateAllowedFields(policies, callRoles)

\* C28: on a model whose schema declares at least one rule, a query or an
\* aggregation that is not bypassed and has passed its pre hook without an
\* error runs with the role projection applied: select() was called for a
\* query, the $project stage was put into the pipeline of an aggregation.
FailClosedOverLifecycle ==
    LET parsed == parseSchemaPathsRecursive(schema, "", EmptyParse)
    IN (/\ Len(parsed.policy) > 0
        /\ query.phase \in { "executing", "done" }
        /\ ~ query.bypassed)
       => IF query.op = "aggregate"
          THEN /\ query.selectFields # << >>
               /\ \E i \in 1..Len(pipeline) :
                      /\ pipeline[i].key = "$project"
                      /\ \A k \in 1..Len(query.selectFields) :
                             \E e \in 1..Len(pipeline[i].body) :
                                 pipeline[i].body[e].field = query.selectFields[k]
          ELSE query.selected /\ query.optionsSet

====
